---------------------------- MODULE Spec2Model ----------------------------
(***************************************************************************)
(* A model of the ContextMemory engine (vasantkr97/giveMemory.ai):         *)
(*   - FAISSVectorStore (memory/vector_store.py): a flat inner-product     *)
(*     index with a bidirectional memory_id <-> faiss_idx mapping;         *)
(*   - the registry of per-conversation stores and their files;            *)
(*   - the update phase, bubble creation, connection discovery, search,    *)
(*     update and delete of ContextMemory (memory/memory.py and the        *)
(*     modules it calls);                                                  *)
(*   - the Action Oracle response parser (memory/tool_classifier.py).      *)
(*                                                                         *)
(* Numbers.  Embeddings are 2-dimensional integer vectors.  faiss's        *)
(* normalize_L2 is computed: a vector is scaled to length Unit (= 1.0),    *)
(* and the raw vectors are chosen so that the scaling is exact.  An inner  *)
(* product of two normalised vectors is an integer in units of             *)
(* 1/(Unit*Unit): 25 is 1.0 and 15 is 0.6.                                  *)
(***************************************************************************)
EXTENDS Integers, Sequences, FiniteSets, TLC

VARIABLES
    \* ---- one FAISSVectorStore instance on its own (specification SpecIndex)
    ix,         \* the instance: [vecs, id_map, reverse_map]
    ixRemoved,  \* history: ids removed and not added again since
    ixOp,       \* the last call on it and what it returned
    \* ---- the Action Oracle parser on its own (specification SpecParse)
    pIn,        \* the oracle's raw response and the candidate fact
    pOut,       \* what _parse_decision produced for it
    \* ---- the memory engine (specification Spec)
    mem,        \* the memories table as the session sees it: id -> row
    durable,    \* the committed memories table
    nextId,     \* the next primary key (keys are taken never to be reused)
    registry,   \* _vector_stores: conversation_id -> instance
    disk,       \* the index files: conversation_id -> saved files
    call,       \* the add() call in progress or the one that returned last
    now,        \* the clock, in ticks of 1/TicksPerDay of a day
    hist,       \* history: ids a completed REPLACE decision has replaced
    \* ---- the extraction phase of add() (specification SpecAdd)
    transcript  \* the messages table: the rows in the order they were added

ixVars   == <<ix, ixRemoved, ixOp>>
pVars    == <<pIn, pOut>>
sysVars  == <<mem, durable, nextId, registry, disk, call, now, hist>>
tVars    == <<transcript>>
vars     == <<ix, ixRemoved, ixOp, pIn, pOut,
              mem, durable, nextId, registry, disk, call, now, hist, transcript>>

---------------------------------------------------------------------------
(* Bounds of the model *)

MaxMem   == 2      \* primary keys 1..MaxMem of the memories table
MaxIxIds == 2      \* ids handed to the index driven directly
MaxSlots == 3      \* physical slots of the index driven directly
MaxK     == 3      \* k of a direct index search

Ids      == 1..MaxMem
IxIds    == 1..MaxIxIds

---------------------------------------------------------------------------
(* Vectors *)

Unit == 5          \* the length of a normalised vector (1.0)

\* Raw vectors a caller may hand to the index.  <<2,0>> and <<4,0>> differ
\* only in length; <<0,0>> has norm 0.
Vecs == { <<2, 0>>, <<4, 0>>, <<0, 1>>, <<3, 4>>, <<0, 0>> }

Min(a, b) == IF a <= b THEN a ELSE b

ISqrt(n) == CHOOSE r \in 0..n : r * r <= n /\ (r + 1) * (r + 1) > n

Norm(v) == ISqrt(v[1] * v[1] + v[2] * v[2])

\* faiss.normalize_L2: divides by the norm; a zero-norm vector is left as is.
normalize_L2(v) ==
    IF Norm(v) = 0 THEN v
    ELSE << (v[1] * Unit) \div Norm(v), (v[2] * Unit) \div Norm(v) >>

\* IndexFlatIP's metric.
InnerProduct(a, b) == a[1] * b[1] + a[2] * b[2]

Range(f) == { f[x] : x \in DOMAIN f }

\* A function without one key (del d[k]).
Without(f, k) == [x \in (DOMAIN f) \ {k} |-> f[x]]

\* d[k] = v on a dict.
With(f, k, v) == [x \in (DOMAIN f) \cup {k} |-> IF x = k THEN v ELSE f[x]]

EmptyMap == [x \in {} |-> 0]

---------------------------------------------------------------------------
(* FAISSVectorStore *)

\* __init__: an empty IndexFlatIP and two empty dicts.  vecs[i+1] is the
\* vector in physical slot i; index.ntotal is Len(vecs).
FAISS_init == [vecs |-> <<>>, id_map |-> EmptyMap, reverse_map |-> EmptyMap]

ntotal(s) == Len(s.vecs)

\* An add that stores the vector again for an id it already maps.
FAISS_add_overwrites(s, memory_id, embedding) ==
    [vecs        |-> Append(s.vecs, normalize_L2(embedding)),
     id_map      |-> With(s.id_map, memory_id, ntotal(s)),
     reverse_map |-> With(s.reverse_map, ntotal(s), memory_id)]

\* An add that takes the number of mapped ids for the next slot index.
FAISS_add_at_count(s, memory_id, embedding) ==
    IF memory_id \in DOMAIN s.id_map
    THEN s
    ELSE LET faiss_idx == Cardinality(DOMAIN s.id_map)
         IN  [vecs        |-> Append(s.vecs, normalize_L2(embedding)),
              id_map      |-> With(s.id_map, memory_id, faiss_idx),
              reverse_map |-> With(s.reverse_map, faiss_idx, memory_id)]

\* add(memory_id, embedding)
FAISS_add(s, memory_id, embedding) ==
    IF memory_id \in DOMAIN s.id_map
    THEN s
    ELSE LET faiss_idx == ntotal(s)
         IN  [vecs        |-> Append(s.vecs, normalize_L2(embedding)),
              id_map      |-> With(s.id_map, memory_id, faiss_idx),
              reverse_map |-> With(s.reverse_map, faiss_idx, memory_id)]

\* A remove that forgets the reverse mapping.
FAISS_remove_keeps_reverse(s, memory_id) ==
    IF memory_id \in DOMAIN s.id_map
    THEN [s EXCEPT !.id_map = Without(s.id_map, memory_id)]
    ELSE s

\* remove(memory_id)
FAISS_remove(s, memory_id) ==
    IF memory_id \in DOMAIN s.id_map
    THEN LET faiss_idx == s.id_map[memory_id]
         IN  [s EXCEPT !.reverse_map =
                           IF faiss_idx \in DOMAIN s.reverse_map
                           THEN Without(s.reverse_map, faiss_idx)
                           ELSE s.reverse_map,
                       !.id_map = Without(s.id_map, memory_id)]
    ELSE s

\* count
FAISS_count(s) == Cardinality(DOMAIN s.id_map)

\* The orders in which IndexFlatIP.search may return its k best of the
\* slots S: by descending score sc[i]; the order among equal scores is
\* left to the library, so every such order is a possible outcome.
RECURSIVE TopK(_, _, _)
TopK(sc, S, k) ==
    IF k = 0 \/ S = {} THEN { <<>> }
    ELSE LET best == { i \in S : \A j \in S : sc[j] <= sc[i] }
         IN  UNION { { <<i>> \o r : r \in TopK(sc, S \ {i}, k - 1) } : i \in best }

\* The loop of search() over (scores[0], indices[0]): hits whose slot is no
\* longer in reverse_map are skipped.
RECURSIVE MapBack(_, _, _)
MapBack(s, sc, hits) ==
    IF hits = <<>> THEN <<>>
    ELSE LET idx  == Head(hits)
             rest == MapBack(s, sc, Tail(hits))
         IN  IF idx \in DOMAIN s.reverse_map
             THEN <<[memory_id |-> s.reverse_map[idx], score |-> sc[idx]]>> \o rest
             ELSE rest

\* search(query_embedding, k): the set of lists it may return.
FAISS_search(s, query_embedding, k) ==
    IF ntotal(s) = 0 THEN { <<>> }
    ELSE LET vector == normalize_L2(query_embedding)
             sc     == [i \in 0..(ntotal(s) - 1) |-> InnerProduct(vector, s.vecs[i + 1])]
             kk     == Min(k, ntotal(s))
         IN  { MapBack(s, sc, hits) : hits \in TopK(sc, 0..(ntotal(s) - 1), kk) }

ResultIds(r) == { r[i].memory_id : i \in 1..Len(r) }

---------------------------------------------------------------------------
(* One FAISSVectorStore driven directly: Add / Remove / Search             *)

NoVec == <<0, 0>>

InitOthersForIndex ==
    /\ pIn = [raw |-> "none", fact |-> "none"]
    /\ pOut = [outcome |-> "none"]
    /\ mem = EmptyMap
    /\ durable = EmptyMap
    /\ nextId = 1
    /\ registry = EmptyMap
    /\ disk = EmptyMap
    /\ call = [op |-> "idle"]
    /\ now = 0
    /\ hist = {}
    /\ transcript = <<>>

InitIndex ==
    /\ ix = FAISS_init
    /\ ixRemoved = {}
    /\ ixOp = [op |-> "init", q |-> NoVec, k |-> 0, ret |-> <<>>, before |-> 0]
    /\ InitOthersForIndex

IxAdd(memory_id, embedding) ==
    /\ ntotal(ix) < MaxSlots
    /\ ix' = FAISS_add(ix, memory_id, embedding)
    /\ ixRemoved' = ixRemoved \ {memory_id}
    /\ ixOp' = [op |-> "add", q |-> embedding, k |-> 0, ret |-> <<>>, before |-> ntotal(ix)]

IxRemove(memory_id) ==
    /\ ix' = FAISS_remove(ix, memory_id)
    /\ ixRemoved' = ixRemoved \cup {memory_id}
    /\ ixOp' = [op |-> "remove", q |-> NoVec, k |-> 0, ret |-> <<>>, before |-> ntotal(ix)]

IxSearch(query_embedding, k) ==
    /\ \E r \in FAISS_search(ix, query_embedding, k) :
          ixOp' = [op |-> "search", q |-> query_embedding, k |-> k,
                   ret |-> r, before |-> ntotal(ix)]
    /\ UNCHANGED <<ix, ixRemoved>>

NextIndex ==
    \/ \E id \in IxIds, v \in Vecs : IxAdd(id, v) /\ UNCHANGED <<pVars, sysVars, tVars>>
    \/ \E id \in IxIds : IxRemove(id) /\ UNCHANGED <<pVars, sysVars, tVars>>
    \/ \E q \in Vecs, k \in 1..MaxK : IxSearch(q, k) /\ UNCHANGED <<pVars, sysVars, tVars>>

SpecIndex == InitIndex /\ [][NextIndex]_vars

---------------------------------------------------------------------------
\* C1 (tombstone correctness): after Remove(id), and until id is added
\* again, no Search -- whatever the query vector and k, and whichever order
\* the library breaks ties in -- returns id; and a Remove leaves the number
\* of physical slots as it was.
C1_Tombstone ==
    /\ \A id \in ixRemoved : \A q \in Vecs, k \in 1..MaxK :
          \A r \in FAISS_search(ix, q, k) : id \notin ResultIds(r)
    /\ ixOp.op = "search" => ResultIds(ixOp.ret) \cap ixRemoved = {}
    /\ ixOp.op = "remove" => ntotal(ix) = ixOp.before

\* A search ran with the slot of a removed id still physically stored and
\* pointing exactly along the query, and returned another id.
C1_Witness ==
    /\ ixOp.op = "search"
    /\ ixOp.ret # <<>>
    /\ ixRemoved # {}
    /\ \E i \in 1..ntotal(ix) :
          /\ (i - 1) \notin DOMAIN ix.reverse_map
          /\ ix.vecs[i] = normalize_L2(ixOp.q)
          /\ Norm(ixOp.q) # 0

\* The similarity of a mapped id to a query, as the index computes it.
MappedScore(s, q, id) == InnerProduct(normalize_L2(q), s.vecs[s.id_map[id] + 1])

\* C2 (top-k of the mapped ids): Search(q, k) returns exactly
\* min(k, Count) results, all of them currently mapped ids, no id twice, in
\* descending score order, and no mapped id left out scores higher than one
\* returned -- also when tombstoned slots score higher than mapped ones.
\* (Stated for vectors of non-zero norm, the case the claim is about.)
C2_SearchTopK ==
    \A q \in Vecs, k \in 1..MaxK : \A r \in FAISS_search(ix, q, k) :
      (Norm(q) # 0 /\ \A i \in 1..ntotal(ix) : Norm(ix.vecs[i]) # 0) =>
        /\ Len(r) = Min(k, FAISS_count(ix))
        /\ ResultIds(r) \subseteq DOMAIN ix.id_map
        /\ Cardinality(ResultIds(r)) = Len(r)
        /\ \A i \in 1..Len(r) : r[i].score = MappedScore(ix, q, r[i].memory_id)
        /\ \A i, j \in 1..Len(r) : i < j => r[i].score >= r[j].score
        /\ \A id \in (DOMAIN ix.id_map) \ ResultIds(r) :
              \A i \in 1..Len(r) : MappedScore(ix, q, id) <= r[i].score

\* C11 (idempotent add): Add(id, v) for an id that is already mapped
\* changes nothing of the instance -- Count, the slot count, both mappings
\* and the stored vectors -- whatever v is.
C11_IdempotentAdd ==
    [][\A id \in IxIds, v \in Vecs :
          (IxAdd(id, v) /\ id \in DOMAIN ix.id_map) =>
              /\ ix' = ix
              /\ FAISS_count(ix') = FAISS_count(ix)
              /\ ntotal(ix') = ntotal(ix)]_vars

\* An Add has just left the slot count as it was (its id was mapped), and
\* its vector is not the one any mapped id holds.
C11_Witness ==
    /\ ixOp.op = "add"
    /\ ixOp.before = ntotal(ix)
    /\ Norm(ixOp.q) # 0
    /\ \A id \in DOMAIN ix.id_map : ix.vecs[ix.id_map[id] + 1] # normalize_L2(ixOp.q)

\* The part of C12 that holds of each state.
StructureOk(s) ==
    /\ DOMAIN s.reverse_map = { s.id_map[id] : id \in DOMAIN s.id_map }
    /\ \A id \in DOMAIN s.id_map : s.reverse_map[s.id_map[id]] = id
    /\ \A idx \in DOMAIN s.reverse_map : s.id_map[s.reverse_map[idx]] = idx
    /\ \A idx \in DOMAIN s.reverse_map : idx \in 0..(ntotal(s) - 1)
    /\ DOMAIN s.reverse_map \subseteq { s.id_map[id] : id \in DOMAIN s.id_map }
    /\ FAISS_count(s) = Cardinality(DOMAIN s.reverse_map)

\* The part of C12 that holds of each step: a slot keeps its id as long as
\* it is mapped, a newly mapped slot is one no id ever had (it is not
\* below the old slot count), and the slot count does not decrease.
StructureKept(s, t) ==
    /\ ntotal(t) >= ntotal(s)
    /\ \A idx \in DOMAIN t.reverse_map :
          IF idx \in DOMAIN s.reverse_map
          THEN t.reverse_map[idx] = s.reverse_map[idx]
          ELSE idx >= ntotal(s)

\* C12 (structure of one index): id_map and reverse_map are inverse
\* bijections between the mapped ids and some of the slots, mapped slot
\* indexes are below the slot count, Count is the number of mapped ids,
\* no slot is ever given to a second id and the slot count never
\* decreases.
C12_Structure ==
    []StructureOk(ix) /\ [][StructureKept(ix, ix')]_vars

\* Count is below the slot count, and an id sits in a slot above a
\* tombstone: it was added after a removal.
C12_Witness ==
    /\ FAISS_count(ix) < ntotal(ix)
    /\ \E id \in DOMAIN ix.id_map :
          \E idx \in 0..(ntotal(ix) - 1) :
              idx \notin DOMAIN ix.reverse_map /\ idx < ix.id_map[id]

\* The vector stored for a mapped id.
StoredVector(s, id) == s.vecs[s.id_map[id] + 1]

\* C15 (self-similarity): for every mapped id X with stored vector v, no
\* other mapped id having the same direction, Search(v, 1) returns exactly
\* X, with the maximal score 1.0.
C15_SelfSimilarity ==
    \A X \in DOMAIN ix.id_map :
        LET v == StoredVector(ix, X)
        IN  (/\ Norm(v) # 0
             /\ \A other \in (DOMAIN ix.id_map) \ {X} : StoredVector(ix, other) # v)
            => \A r \in FAISS_search(ix, v, 1) :
                  r = <<[memory_id |-> X, score |-> Unit * Unit]>>

---------------------------------------------------------------------------
(* The Action Oracle's response and _parse_decision                        *)

\* Texts of facts, memories and queries, and the Embedding Provider's
\* vector for each (an external collaborator: a fixed function of the text).
Texts == { "tea", "coffee" }

embed_text(text) ==
    IF text = "tea" THEN <<2, 0>> ELSE IF text = "salt" THEN <<0, 1>> ELSE <<3, 4>>

NoneText == "<None>"     \* Python's None where a string is expected
NoneId   == -1           \* Python's None where an int is expected
Absent   == "<absent>"   \* a key the JSON object does not have
AbsentId == -2

ValidActions == { "ADD", "UPDATE", "DELETE", "REPLACE", "NOOP" }

\* str.upper() on the action names the oracle is taken to produce.
upper(a) ==
    CASE a = "add"    -> "ADD"
      [] a = "update" -> "UPDATE"
      [] a = "merge"  -> "MERGE"
      [] OTHER        -> a

\* What the oracle may answer.  kind: "none" is a missing message content,
\* "notjson" text json.loads rejects, "json_null", "json_list" and
\* "json_scalar" valid JSON that is not an object, "json_object" an object
\* whose keys may each be absent or null.  fenced: the JSON is wrapped in a
\* markdown code block.
ActionValues == ValidActions \cup { "add", "update", "merge", "MERGE", Absent, NoneText, "<number>" }
IdValues     == { AbsentId, NoneId, 0 } \cup Ids
TextValues   == { Absent, NoneText, "" } \cup Texts

RawObjects ==
    [ kind : {"json_object"}, fenced : BOOLEAN,
      action : ActionValues, memory_id : IdValues, text : TextValues ]

RawOthers ==
    [ kind : {"none", "notjson", "json_null", "json_list", "json_scalar"},
      fenced : BOOLEAN, action : {Absent}, memory_id : {AbsentId}, text : {Absent} ]

RawResponses == RawObjects \cup RawOthers

ToolDecision(action, memory_id, text) ==
    [outcome |-> "decision", action |-> action, memory_id |-> memory_id, text |-> text]

Raises(exc) ==
    [outcome |-> "raise", action |-> exc, memory_id |-> NoneId, text |-> NoneText]

\* dict.get(key) / dict.get(key, default) on the parsed object
get_memory_id(raw) == IF raw.memory_id = AbsentId THEN NoneId ELSE raw.memory_id
get_text(raw, default) == IF raw.text = Absent THEN default ELSE raw.text

\* _parse_decision(raw_output, candidate_fact)
parse_decision(raw, candidate_fact) ==
    CASE raw.kind = "none" ->
            \* '"```" in None' raises TypeError, which is caught
            ToolDecision("ADD", NoneId, candidate_fact)
      [] raw.kind = "notjson" ->
            \* json.JSONDecodeError, caught (with or without a code fence)
            ToolDecision("ADD", NoneId, candidate_fact)
      [] raw.kind \in {"json_null", "json_list", "json_scalar"} ->
            \* result.get: AttributeError, which the except clause omits
            Raises("AttributeError")
      [] OTHER ->
            IF raw.action \in {NoneText, "<number>"}
            THEN \* None.upper() / int.upper(): AttributeError
                 Raises("AttributeError")
            ELSE LET got    == IF raw.action = Absent THEN "NOOP" ELSE raw.action
                     action == upper(got)
                 IN  ToolDecision(IF action \in ValidActions THEN action ELSE "ADD",
                                  get_memory_id(raw), get_text(raw, candidate_fact))

InitOthersForParse ==
    /\ ix = FAISS_init
    /\ ixRemoved = {}
    /\ ixOp = [op |-> "init", q |-> NoVec, k |-> 0, ret |-> <<>>, before |-> 0]
    /\ mem = EmptyMap
    /\ durable = EmptyMap
    /\ nextId = 1
    /\ registry = EmptyMap
    /\ disk = EmptyMap
    /\ call = [op |-> "idle"]
    /\ now = 0
    /\ hist = {}
    /\ transcript = <<>>

InitParse ==
    /\ pIn \in [raw : RawResponses, fact : Texts]
    /\ pOut = [outcome |-> "none", action |-> "", memory_id |-> NoneId, text |-> NoneText]
    /\ InitOthersForParse

\* llm_tool_call hands the oracle's answer to _parse_decision.
Parse ==
    /\ pOut.outcome = "none"
    /\ pOut' = parse_decision(pIn.raw, pIn.fact)
    /\ UNCHANGED <<pIn, ixVars, sysVars, tVars>>

NextParse == Parse

SpecParse == InitParse /\ [][NextParse]_vars

\* The responses the claim calls malformed: not JSON, JSON that is not an
\* object, an object whose "action" is missing or null.
Malformed(raw) ==
    \/ raw.kind \in {"none", "notjson", "json_null", "json_list", "json_scalar"}
    \/ raw.kind = "json_object" /\ raw.action \in {Absent, NoneText}

\* C6 (malformed classifier output never propagates): for every malformed
\* response the parser returns the decision ADD with the original
\* candidate text, and raises nothing.
C6_MalformedIsAdd ==
    (pOut.outcome # "none" /\ Malformed(pIn.raw)) =>
        pOut = ToolDecision("ADD", NoneId, pIn.fact)

---------------------------------------------------------------------------
(* Persistence of an index and the registry of stores                      *)

MaxSysSlots == 2   \* physical slots of a conversation's index (bound)

\* int(k) for a key written by str(k).
ParseInt(str) == CHOOSE n \in 0..(MaxMem + MaxSysSlots) : ToString(n) = str

\* {str(k): v for k, v in d.items()}, as the set of (key, value) pairs of
\* the JSON object written.
DumpMap(d) == { <<ToString(k), d[k]>> : k \in DOMAIN d }

\* {int(k): v for k, v in data[...].items()}
LoadMap(pairs) ==
    [k \in { ParseInt(p[1]) : p \in pairs } |->
        (CHOOSE p \in pairs : ParseInt(p[1]) = k)[2]]

\* A save that writes no reverse_map entries.
FAISS_save_without_reverse(s) ==
    [faiss |-> s.vecs, id_map |-> DumpMap(s.id_map), reverse_map |-> {}]

\* save(path): the .faiss file and the .map.json file.
FAISS_save(s) ==
    [faiss |-> s.vecs, id_map |-> DumpMap(s.id_map), reverse_map |-> DumpMap(s.reverse_map)]

\* load(path) into a fresh instance, the files being the ones save() wrote.
FAISS_load(files) ==
    [vecs |-> files.faiss, id_map |-> LoadMap(files.id_map),
     reverse_map |-> LoadMap(files.reverse_map)]

\* What may be found at a path where save() once wrote: the files as
\* written, no .faiss file, a .faiss file read_index cannot read, no
\* .map.json file, a .map.json file that is not JSON, and a JSON object
\* lacking "id_map" or lacking "reverse_map".
Shapes ==
    {"intact", "no_faiss", "bad_faiss", "no_map", "bad_map", "no_id_map", "no_reverse_map"}

\* load(path) on instance s, the files at the path being `files` in the
\* given shape: the instance afterwards and the value returned.  Each
\* assignment made before the exception is raised stays.
load(s, files, shape) ==
    CASE shape = "intact" ->
            [store |-> FAISS_load(files), ok |-> TRUE]
      [] shape \in {"no_faiss", "bad_faiss"} ->
            [store |-> s, ok |-> FALSE]
      [] shape \in {"no_map", "bad_map", "no_id_map"} ->
            [store |-> [s EXCEPT !.vecs = files.faiss], ok |-> FALSE]
      [] shape = "no_reverse_map" ->
            [store |-> [s EXCEPT !.vecs = files.faiss,
                                 !.id_map = LoadMap(files.id_map)],
             ok |-> FALSE]

\* get_vector_store(conversation_id): the registry after the call.  A
\* conversation not yet registered gets a new instance, loaded from its
\* files if they exist and empty otherwise.
get_vector_store(reg, dsk, conversation_id) ==
    IF conversation_id \in DOMAIN reg THEN reg
    ELSE With(reg, conversation_id,
              IF conversation_id \in DOMAIN dsk
              THEN FAISS_load(dsk[conversation_id])
              ELSE FAISS_init)

\* save_vector_store(conversation_id): the files after the call.
save_vector_store(reg, dsk, conversation_id) ==
    IF conversation_id \in DOMAIN reg
    THEN With(dsk, conversation_id, FAISS_save(reg[conversation_id]))
    ELSE dsk

---------------------------------------------------------------------------
(* One FAISSVectorStore saved, and its files loaded by a new instance      *)

\* save(path) by the instance, then FAISSVectorStore() and load(path) with
\* the files in the given shape; the new instance takes the place of the
\* old one, as after a restart.
IxSaveLoad(shape) ==
    LET files  == FAISS_save(ix)
        loaded == load(FAISS_init, files, shape)
    IN  /\ ix' = loaded.store
        /\ ixOp' = [op |-> "load", q |-> NoVec, k |-> 0, ret |-> <<>>,
                    before |-> ntotal(ix), shape |-> shape, ok |-> loaded.ok,
                    saved |-> ix]
        /\ UNCHANGED ixRemoved

NextPersist ==
    \/ \E id \in IxIds, v \in Vecs : IxAdd(id, v) /\ UNCHANGED <<pVars, sysVars, tVars>>
    \/ \E id \in IxIds : IxRemove(id) /\ UNCHANGED <<pVars, sysVars, tVars>>
    \/ \E shape \in Shapes : IxSaveLoad(shape) /\ UNCHANGED <<pVars, sysVars, tVars>>

SpecPersist == InitIndex /\ [][NextPersist]_vars

\* C13 (round trip): after Save and a Load of the files as written into a
\* new instance, id_map, reverse_map and the slot contents equal those of
\* the saved instance, so every Search and Count give the same, and a
\* removed id is still unmapped.
C13_RoundTrip ==
    (ixOp.op = "load" /\ ixOp.shape = "intact") =>
        /\ ixOp.ok
        /\ ix.id_map = ixOp.saved.id_map
        /\ ix.reverse_map = ixOp.saved.reverse_map
        /\ ix.vecs = ixOp.saved.vecs
        /\ FAISS_count(ix) = FAISS_count(ixOp.saved)
        /\ \A q \in Vecs, k \in 1..MaxK :
              FAISS_search(ix, q, k) = FAISS_search(ixOp.saved, q, k)
        /\ \A id \in ixRemoved : id \notin DOMAIN ix.id_map

\* A round trip of an index holding a mapped id above a tombstone.
C13_Witness ==
    /\ ixOp.op = "load"
    /\ ixOp.shape = "intact"
    /\ ixRemoved # {}
    /\ DOMAIN ixOp.saved.id_map # {}
    /\ FAISS_count(ixOp.saved) < ntotal(ixOp.saved)

\* C14 (failed load): a Load that reports failure leaves an instance that
\* behaves as an empty index: Count = 0, every Search returns nothing, and
\* id_map and reverse_map are inverses of each other.
C14_FailedLoadIsEmpty ==
    (ixOp.op = "load" /\ ~ixOp.ok) =>
        /\ FAISS_count(ix) = 0
        /\ \A q \in Vecs, k \in 1..MaxK : FAISS_search(ix, q, k) = { <<>> }
        /\ DOMAIN ix.reverse_map = { ix.id_map[id] : id \in DOMAIN ix.id_map }
        /\ \A id \in DOMAIN ix.id_map : ix.reverse_map[ix.id_map[id]] = id

---------------------------------------------------------------------------
(* The memories table                                                      *)

MaxConv == 1       \* conversations 1..MaxConv (bound)
Convs   == 1..MaxConv

NoTime            == -1   \* occurred_at IS NULL
DefaultImportance == 5    \* Memory.importance default 0.5, in tenths

\* A row of the memories table.  connections is memory_metadata's
\* "connections" entry: the list bubble_ids with the score of each id;
\* <<>> stands for a metadata of None or {}.
Row(conversation_id, memory_text, embedding, is_episodic, occurred_at, importance) ==
    [conversation_id |-> conversation_id, memory_text |-> memory_text,
     embedding |-> embedding, is_episodic |-> is_episodic,
     occurred_at |-> occurred_at, importance |-> importance,
     is_active |-> TRUE, connections |-> <<>>]

\* Session.flush(): the DELETEs of the rows marked by db.delete() are sent.
\* (The session is made with autoflush=False: until then the rows are still
\* in the table and queries and db.get() still return them.)
flush(m, pending) == [i \in (DOMAIN m) \ pending |-> m[i]]

\* The ids of a set in ascending order.
RECURSIVE Ascending(_)
Ascending(S) ==
    IF S = {} THEN <<>>
    ELSE LET lo == CHOOSE x \in S : \A y \in S : x <= y
         IN  <<lo>> \o Ascending(S \ {lo})

RECURSIVE AddAll(_, _, _)
AddAll(store, m, ids) ==
    IF ids = <<>> THEN store
    ELSE AddAll(FAISS_add(store, Head(ids), m[Head(ids)].embedding), m, Tail(ids))

\* A rebuild that indexes the soft-deleted rows as well.
rebuild_index_with_inactive(m, conversation_id) ==
    AddAll(FAISS_init, m,
           Ascending({ i \in DOMAIN m : m[i].conversation_id = conversation_id }))

\* rebuild_index_from_db(db, conversation_id): the new instance, holding the
\* conversation's active rows (in primary-key order; every row of the model
\* has an embedding).
rebuild_index_from_db(m, conversation_id) ==
    AddAll(FAISS_init, m,
           Ascending({ i \in DOMAIN m : /\ m[i].conversation_id = conversation_id
                                        /\ m[i].is_active }))

\* The head of search_similar_memories() and of search(): the registered
\* store, replaced by a rebuilt and saved one when its count is 0.
\* rebuilt tells whether that happened.
store_or_rebuild(reg, dsk, m, conversation_id) ==
    LET reg1 == get_vector_store(reg, dsk, conversation_id)
    IN  IF FAISS_count(reg1[conversation_id]) = 0
        THEN LET store == rebuild_index_from_db(m, conversation_id)
                 reg2  == With(reg1, conversation_id, store)
             IN  [reg |-> reg2, disk |-> save_vector_store(reg2, dsk, conversation_id),
                  rebuilt |-> TRUE]
        ELSE [reg |-> reg1, disk |-> dsk, rebuilt |-> FALSE]

---------------------------------------------------------------------------
(* ContextMemory.add(): the update phase                                   *)

MaxFacts   == 2    \* semantic facts of one add() (bound)
MaxBubbles == 2    \* bubble descriptors of one add() (bound)

\* No add() in progress.  While one is: conv its conversation, done the
\* facts (then the bubble descriptors) processed so far -- the lists are
\* inputs, drawn element by element; alias tells whether update_phase's local
\* vector_store is still the registered instance, and local is that
\* instance once it is not; pending the rows marked by db.delete() and not
\* yet flushed; created the ids its decisions created and replaced the
\* <<old, new>> pairs of its REPLACE decisions so far.  Once add() has
\* returned, created and replaced stay until the next call.
Idle ==
    [op |-> "idle", conv |-> 0, done |-> 0, alias |-> TRUE,
     local |-> FAISS_init, pending |-> {}, created |-> {}, replaced |-> {}]


\* The answers of the Action Oracle taken in the engine's runs.
SysResponses ==
    { r \in RawResponses :
        /\ ~r.fenced
        /\ r.kind \in {"notjson", "json_list", "json_object"}
        /\ r.action \in ValidActions \cup {"MERGE", Absent}
        /\ r.memory_id \in {AbsentId} \cup Ids
        /\ r.text \in {Absent, "coffee"} }

\* "x or y" on strings
Or(x, y) == IF x \in {NoneText, ""} THEN y ELSE x

\* The truth value of decision.memory_id
Truthy(memory_id) == memory_id \notin {NoneId, 0}

\* db.add(memory); db.flush(); vector_store.add(memory.id, fact_embedding)
\* -- the tail of the ADD and REPLACE branches.
InsertFact(store, m, pending, nid, conversation_id, text_to_store, fact_embedding) ==
    [store   |-> FAISS_add(store, nid, fact_embedding),
     mem     |-> With(flush(m, pending), nid,
                      Row(conversation_id, text_to_store, fact_embedding,
                          FALSE, NoTime, DefaultImportance)),
     pending |-> {},
     nextId  |-> nid + 1,
     new     |-> nid]

\* A chain whose every branch stores the fact as a new memory.
execute_action_always_inserts(decision, fact, store, m, pending, nid, conversation_id) ==
    InsertFact(store, m, pending, nid, conversation_id,
               Or(decision.text, fact), embed_text(fact))

\* The if/elif chain of update_phase for one decision.  store is the
\* instance update_phase's local variable vector_store refers to.
execute_action(decision, fact, store, m, pending, nid, conversation_id) ==
    LET fact_embedding == embed_text(fact)
        text_to_store  == Or(decision.text, fact)
        target         == decision.memory_id
        found          == Truthy(target) /\ target \in DOMAIN m
        same           == [store |-> store, mem |-> m, pending |-> pending,
                           nextId |-> nid, new |-> 0]
    IN  CASE decision.action = "ADD" ->
                InsertFact(store, m, pending, nid, conversation_id,
                           text_to_store, fact_embedding)
          [] decision.action = "UPDATE" /\ Truthy(target) ->
                IF found
                THEN [same EXCEPT
                        !.store = FAISS_add(FAISS_remove(store, target), target,
                                            fact_embedding),
                        !.mem = [m EXCEPT ![target].memory_text = text_to_store,
                                          ![target].embedding = fact_embedding]]
                ELSE same
          [] decision.action = "DELETE" /\ Truthy(target) ->
                IF found
                THEN [same EXCEPT !.store = FAISS_remove(store, target),
                                  !.pending = pending \cup {target}]
                ELSE same
          [] decision.action = "REPLACE" /\ Truthy(target) ->
                InsertFact(IF found THEN FAISS_remove(store, target) ELSE store,
                           m,
                           IF found THEN pending \cup {target} ELSE pending,
                           nid, conversation_id, text_to_store, fact_embedding)
          [] OTHER -> same

\* add(messages, conversation_id) after the extraction: with semantic
\* facts it enters update_phase, with bubble descriptors only
\* create_bubbles, with neither it returns.  Both phases start with
\* vector_store = get_vector_store(conversation_id).
AddBegin(c, facts, bubbles) ==
    /\ call.op = "idle"
    /\ registry' = IF facts \/ bubbles THEN get_vector_store(registry, disk, c)
                   ELSE registry
    /\ call' = IF facts
               THEN [Idle EXCEPT !.op = "update_phase", !.conv = c]
               ELSE IF bubbles
               THEN [Idle EXCEPT !.op = "create_bubbles", !.conv = c]
               ELSE Idle
    /\ UNCHANGED <<mem, durable, nextId, disk, now, hist>>

\* The instance update_phase's local vector_store refers to.
HeldStore == IF call.alias THEN registry[call.conv] ELSE call.local

\* One iteration of update_phase's loop: embed the fact, look up similar
\* memories (which may rebuild and re-register the store), ask the oracle,
\* execute its decision on the held instance.
UpdateFact(fact, raw) ==
    /\ call.op = "update_phase" /\ call.done < MaxFacts
    /\ LET c        == call.conv
           look     == store_or_rebuild(registry, disk, mem, c)
           alias1   == call.alias /\ ~look.rebuilt
           decision == parse_decision(raw, fact)
           r        == execute_action(decision, fact, HeldStore, mem, call.pending,
                                      nextId, c)
           target   == decision.memory_id
           replaces == /\ decision.action = "REPLACE"
                       /\ Truthy(target) /\ target \in DOMAIN mem
                       /\ mem[target].is_active
                       /\ mem[target].conversation_id = c
       IN  /\ decision.outcome = "decision"
           /\ r.nextId <= MaxMem + 1
           /\ ntotal(r.store) <= MaxSysSlots
           /\ mem' = r.mem
           /\ nextId' = r.nextId
           /\ registry' = IF alias1 THEN With(look.reg, c, r.store) ELSE look.reg
           /\ disk' = look.disk
           /\ call' = [call EXCEPT
                          !.done = @ + 1,
                          !.alias = alias1,
                          !.local = IF alias1 THEN FAISS_init ELSE r.store,
                          !.pending = r.pending,
                          !.created = IF r.new # 0 THEN @ \cup {r.new} ELSE @,
                          !.replaced = IF replaces
                                       THEN @ \cup {<<target, r.new>>} ELSE @]
    /\ UNCHANGED <<durable, now, hist>>

\* The oracle's answer makes _parse_decision raise: nothing in
\* llm_tool_call, update_phase, add() or the chat loop catches it, the
\* session is closed (main.py, finally: db.close()) and the process ends.
\* What was not committed is rolled back; the files stay as last saved.
UpdateRaises(fact, raw) ==
    /\ call.op = "update_phase" /\ call.done < MaxFacts
    /\ parse_decision(raw, fact).outcome = "raise"
    /\ mem' = durable
    /\ registry' = EmptyMap
    /\ disk' = store_or_rebuild(registry, disk, mem, call.conv).disk
    /\ call' = Idle
    /\ UNCHANGED <<durable, nextId, now, hist>>

\* The end of update_phase: save_vector_store(conversation_id); db.commit().
\* add() then goes on to create_bubbles if there are descriptors, or returns.
UpdateEnd(bubbles) ==
    /\ call.op = "update_phase" /\ call.done >= 1
    /\ disk' = save_vector_store(registry, disk, call.conv)
    /\ mem' = flush(mem, call.pending)
    /\ durable' = mem'
    /\ hist' = hist \cup { p[1] : p \in call.replaced }
    /\ IF bubbles
       THEN /\ call' = [Idle EXCEPT !.op = "create_bubbles", !.conv = call.conv,
                                    !.created = call.created,
                                    !.replaced = call.replaced]
       ELSE /\ call' = [Idle EXCEPT !.created = call.created,
                                    !.replaced = call.replaced]
    /\ UNCHANGED <<nextId, registry, now>>

---------------------------------------------------------------------------
(* Bubble creation and connection discovery                                *)

CONNECTION_THRESHOLD == 600    \* 0.6, in thousandths
MAX_CONNECTIONS      == 5

\* round(score, 3) of an inner product: thousandths, to the nearest.
round3(score) == (2 * 1000 * score + Unit * Unit) \div (2 * Unit * Unit)

ConnIds(row) == { row.connections[i].id : i \in 1..Len(row.connections) }

\* The filter loop of find_connections over the index results.
RECURSIVE Scored(_, _)
Scored(results, new_id) ==
    IF results = <<>> THEN <<>>
    ELSE LET r    == Head(results)
             rest == Scored(Tail(results), new_id)
         IN  IF r.memory_id # new_id
                /\ 1000 * r.score >= CONNECTION_THRESHOLD * Unit * Unit
             THEN <<[id |-> r.memory_id, score |-> round3(r.score)]>> \o rest
             ELSE rest

\* The reverse-connection loop of find_connections.
RECURSIVE Reverse(_, _, _)
Reverse(m, top, new_id) ==
    IF top = <<>> THEN m
    ELSE LET conn == Head(top)
             m1   == IF conn.id \in DOMAIN m /\ new_id \notin ConnIds(m[conn.id])
                     THEN [m EXCEPT ![conn.id].connections =
                               Append(@, [id |-> new_id, score |-> conn.score])]
                     ELSE m
         IN  Reverse(m1, Tail(top), new_id)

\* A discovery that writes no reverse connection.
find_connections_one_way(m, results, new_id) ==
    LET scored == Scored(results, new_id)
        top_connections == SubSeq(scored, 1, Min(MAX_CONNECTIONS, Len(scored)))
    IN  IF top_connections = <<>> THEN m
        ELSE [m EXCEPT ![new_id].connections = top_connections]

\* A discovery that keeps every qualifying result.
find_connections_uncapped(m, results, new_id) ==
    LET scored == Scored(results, new_id)
    IN  IF scored = <<>> THEN m
        ELSE Reverse([m EXCEPT ![new_id].connections = scored], scored, new_id)

\* find_connections(db, new_bubble, conversation_id), given what the index
\* search returned: the table afterwards.  (An assignment to
\* memory_metadata is taken to be stored, as the Relational Store's
\* contract has it.)
find_connections(m, results, new_id) ==
    LET scored == Scored(results, new_id)
        top_connections == SubSeq(scored, 1, Min(MAX_CONNECTIONS, Len(scored)))
    IN  IF top_connections = <<>> THEN m
        ELSE Reverse([m EXCEPT ![new_id].connections = top_connections],
                     top_connections, new_id)

\* The importance of a bubble descriptor as the Fact Oracle may give it:
\* absent, a number, a numeric string, another string (v in tenths).
BubbleImportances ==
    { [t |-> "absent", v |-> 0], [t |-> "float", v |-> 5],
      [t |-> "str_num", v |-> 5], [t |-> "str_bad", v |-> 0] }

\* bubble_data.get("importance", 0.5) and the float() coercion of strings.
coerce_importance(imp) ==
    CASE imp.t = "absent"  -> DefaultImportance
      [] imp.t = "str_num" -> imp.v
      [] imp.t = "str_bad" -> DefaultImportance
      [] imp.t = "null"    -> DefaultImportance   \* None: the column's default
      [] OTHER             -> imp.v

\* One iteration of create_bubbles' loop.
BubbleStep(text, imp) ==
    /\ call.op = "create_bubbles" /\ call.done < MaxBubbles
    /\ IF text = ""
       THEN UNCHANGED <<mem, nextId, registry>>
       ELSE LET c         == call.conv
                embedding == embed_text(text)
                bubble    == Row(c, text, embedding, TRUE, now, coerce_importance(imp))
                store     == FAISS_add(registry[c], nextId, embedding)
            IN  /\ nextId <= MaxMem
                /\ ntotal(store) <= MaxSysSlots
                /\ nextId' = nextId + 1
                /\ registry' = With(registry, c, store)
                /\ \E results \in FAISS_search(store, embedding, MAX_CONNECTIONS * 2) :
                      mem' = find_connections(With(mem, nextId, bubble), results, nextId)
    /\ call' = [call EXCEPT !.done = @ + 1]
    /\ UNCHANGED <<durable, disk, now, hist>>

\* The end of create_bubbles: save_vector_store(conversation_id);
\* db.commit(); add() returns.
BubblesEnd ==
    /\ call.op = "create_bubbles" /\ call.done >= 1
    /\ disk' = save_vector_store(registry, disk, call.conv)
    /\ durable' = mem
    /\ call' = [Idle EXCEPT !.created = call.created, !.replaced = call.replaced]
    /\ UNCHANGED <<mem, nextId, registry, now, hist>>

---------------------------------------------------------------------------
(* ContextMemory.search()                                                  *)

MaxLimit == 2      \* limit of a search() (bound)

TicksPerDay == 2   \* the clock's resolution: a tick is half a day

\* (now - occurred).days: the whole days of the difference.
days_between(today, occurred) == (today - occurred) \div TicksPerDay

\* math.exp(-0.05 * days_ago), in millionths.
recency_of(days_ago) ==
    CASE days_ago = 0 -> 1000000
      [] days_ago = 1 -> 951229
      [] days_ago = 2 -> 904837
      [] OTHER        -> 860708

\* The score the index gave an id: faiss_scores.get(mem.id, 0)
RECURSIVE ScoreOf(_, _)
ScoreOf(faiss_results, id) ==
    IF faiss_results = <<>> THEN 0
    ELSE IF Head(faiss_results).memory_id = id
         THEN LET later == ScoreOf(Tail(faiss_results), id)
              IN  IF id \in ResultIds(Tail(faiss_results)) THEN later
                  ELSE Head(faiss_results).score
         ELSE ScoreOf(Tail(faiss_results), id)

\* final_score = similarity * importance * recency, in units of
\* 1/(25 * 10 * 1000000).
final_score(row, similarity, today) ==
    LET recency    == IF row.is_episodic /\ row.occurred_at # NoTime
                      THEN recency_of(days_between(today, row.occurred_at))
                      ELSE 1000000
        importance == IF row.importance # 0 THEN row.importance ELSE DefaultImportance
    IN  similarity * importance * recency

\* round(score, 4): ten-thousandths, to the nearest.
round4(score) == (score + 12500) \div 25000

\* scored.sort(key=..., reverse=True): stable, so equal scores keep the
\* order of the list.
RECURSIVE SortDesc(_)
SortDesc(scored) ==
    IF scored = <<>> THEN <<>>
    ELSE LET i == CHOOSE i \in 1..Len(scored) :
                     /\ \A j \in 1..Len(scored) : scored[j].score <= scored[i].score
                     /\ \A j \in 1..(i - 1) : scored[j].score < scored[i].score
         IN  <<scored[i]>> \o
             SortDesc(SubSeq(scored, 1, i - 1) \o SubSeq(scored, i + 1, Len(scored)))

\* The query of search(): the rows with id in memory_ids and is_active.
\* (In primary-key order.)
active_rows(m, memory_ids) ==
    Ascending({ i \in memory_ids \cap DOMAIN m : m[i].is_active })

RECURSIVE ScoreAll(_, _, _, _)
ScoreAll(m, ids, faiss_results, today) ==
    IF ids = <<>> THEN <<>>
    ELSE <<[id |-> Head(ids),
            score |-> final_score(m[Head(ids)], ScoreOf(faiss_results, Head(ids)), today)]>>
         \o ScoreAll(m, Tail(ids), faiss_results, today)

\* A connected memory is shown whatever its is_active flag.
shows_inactive_connection(m, conn_id, result_ids) ==
    conn_id \notin result_ids /\ conn_id \in DOMAIN m

\* A connected memory is shown even if it is already in the result.
shows_repeated_connection(m, conn_id, result_ids) ==
    conn_id \in DOMAIN m /\ m[conn_id].is_active

\* The test on one connection id: not already a result, and db.get() finds
\* it with is_active set.
shows_connection(m, conn_id, result_ids) ==
    conn_id \notin result_ids /\ conn_id \in DOMAIN m /\ m[conn_id].is_active

\* The "collect connected bubbles" loops: top the kept results, result_ids
\* and connected as the code names them.
RECURSIVE Connected(_, _, _, _)
RECURSIVE ConnectedOf(_, _, _, _)
ConnectedOf(m, conn_ids, result_ids, connected) ==
    IF conn_ids = <<>> THEN [result_ids |-> result_ids, connected |-> connected]
    ELSE LET conn_id == Head(conn_ids).id
         IN  IF shows_connection(m, conn_id, result_ids)
             THEN ConnectedOf(m, Tail(conn_ids), result_ids \cup {conn_id},
                              Append(connected, conn_id))
             ELSE ConnectedOf(m, Tail(conn_ids), result_ids, connected)

Connected(m, top, result_ids, connected) ==
    IF top = <<>> THEN connected
    ELSE LET conns == m[Head(top).id].connections
             got   == ConnectedOf(m, SubSeq(conns, 1, Min(2, Len(conns))),
                                  result_ids, connected)
         IN  Connected(m, Tail(top), got.result_ids, got.connected)

\* What search() returns for one outcome of the index search.
search_results(m, faiss_results, limit, include_connections, today) ==
    LET memories    == active_rows(m, ResultIds(faiss_results))
        scored      == SortDesc(ScoreAll(m, memories, faiss_results, today))
        top_results == SubSeq(scored, 1, Min(limit, Len(scored)))
        result_ids  == { top_results[i].id : i \in 1..Len(top_results) }
        connected   == IF include_connections
                       THEN Connected(m, top_results, result_ids, <<>>)
                       ELSE <<>>
        shown       == SubSeq(connected, 1, Min(3, Len(connected)))
    IN  [i \in 1..Len(top_results) |->
            [memory_id |-> top_results[i].id,
             type |-> IF m[top_results[i].id].is_episodic THEN "bubble" ELSE "semantic",
             score |-> round4(top_results[i].score)]]
        \o
        [i \in 1..Len(shown) |-> [memory_id |-> shown[i], type |-> "connected", score |-> 0]]

\* search(query, conversation_id, limit, include_connections): the possible
\* outcomes, each with the registry and the files it leaves.
search(reg, dsk, m, conversation_id, query, limit, include_connections, today) ==
    LET look == store_or_rebuild(reg, dsk, m, conversation_id)
    IN  { [reg |-> look.reg, disk |-> look.disk,
           results |-> search_results(m, fr, limit, include_connections, today)] :
          fr \in FAISS_search(look.reg[conversation_id], embed_text(query), limit * 2) }

Search(c, query, limit, include_connections) ==
    /\ call.op = "idle"
    /\ \E out \in search(registry, disk, mem, c, query, limit, include_connections, now) :
          /\ registry' = out.reg
          /\ disk' = out.disk
    /\ call' = Idle
    /\ UNCHANGED <<mem, durable, nextId, now, hist>>

---------------------------------------------------------------------------
(* ContextMemory.update(), ContextMemory.delete(), the process             *)

\* What a call of update() or delete() leaves behind: the exception it
\* raised ("" if none), the texts it asked embed_text for, and the table,
\* the registry and the files after it.
Outcome(raised, embedded, m, reg, dsk) ==
    [raised |-> raised, embedded |-> embedded, mem |-> m, registry |-> reg, disk |-> dsk]

\* An update() that adds the new embedding without removing the id first.
update_without_remove(m, reg, dsk, memory_id, text) ==
    IF memory_id \notin DOMAIN m
    THEN Outcome("ValueError", {}, m, reg, dsk)
    ELSE LET c    == m[memory_id].conversation_id
             reg1 == get_vector_store(reg, dsk, c)
             reg2 == With(reg1, c, FAISS_add(reg1[c], memory_id, embed_text(text)))
         IN  Outcome("", {text},
                     [m EXCEPT ![memory_id].memory_text = text,
                               ![memory_id].embedding = embed_text(text)],
                     reg2, save_vector_store(reg2, dsk, c))

\* An update() that obtains the conversation's index before it looks the
\* id up (conversation 1 for an id it does not find).
update_opens_index_first(m, reg, dsk, memory_id, text) ==
    IF memory_id \notin DOMAIN m
    THEN Outcome("ValueError", {}, m, get_vector_store(reg, dsk, 1), dsk)
    ELSE LET c    == m[memory_id].conversation_id
             reg1 == get_vector_store(reg, dsk, c)
             reg2 == With(reg1, c, FAISS_add(FAISS_remove(reg1[c], memory_id),
                                             memory_id, embed_text(text)))
         IN  Outcome("", {text},
                     [m EXCEPT ![memory_id].memory_text = text,
                               ![memory_id].embedding = embed_text(text)],
                     reg2, save_vector_store(reg2, dsk, c))

\* update(memory_id, text).  For an id db.get() does not find it raises
\* ValueError to its caller before anything is changed or embedded.
update(m, reg, dsk, memory_id, text) ==
    IF memory_id \notin DOMAIN m
    THEN Outcome("ValueError", {}, m, reg, dsk)
    ELSE LET c             == m[memory_id].conversation_id
             new_embedding == embed_text(text)
             reg1          == get_vector_store(reg, dsk, c)
             store         == FAISS_add(FAISS_remove(reg1[c], memory_id),
                                        memory_id, new_embedding)
             reg2          == With(reg1, c, store)
         IN  Outcome("", {text},
                     [m EXCEPT ![memory_id].memory_text = text,
                               ![memory_id].embedding = new_embedding],
                     reg2, save_vector_store(reg2, dsk, c))

Update(memory_id, text) ==
    LET r == update(mem, registry, disk, memory_id, text)
    IN  /\ call.op = "idle"
        /\ IF r.raised # ""
           THEN UNCHANGED durable
           ELSE /\ ntotal(r.registry[mem[memory_id].conversation_id]) <= MaxSysSlots
                /\ durable' = r.mem
        /\ mem' = r.mem
        /\ registry' = r.registry
        /\ disk' = r.disk
        /\ call' = Idle
        /\ UNCHANGED <<nextId, now, hist>>

\* A delete() that removes the row from the table.
delete_row(m, reg, dsk, memory_id) ==
    IF memory_id \notin DOMAIN m
    THEN Outcome("ValueError", {}, m, reg, dsk)
    ELSE LET c    == m[memory_id].conversation_id
             reg1 == get_vector_store(reg, dsk, c)
             reg2 == With(reg1, c, FAISS_remove(reg1[c], memory_id))
         IN  Outcome("", {}, Without(m, memory_id), reg2, save_vector_store(reg2, dsk, c))

\* delete(memory_id): the soft delete.  An id that is not found: as in
\* update().
delete(m, reg, dsk, memory_id) ==
    IF memory_id \notin DOMAIN m
    THEN Outcome("ValueError", {}, m, reg, dsk)
    ELSE LET c    == m[memory_id].conversation_id
             reg1 == get_vector_store(reg, dsk, c)
             reg2 == With(reg1, c, FAISS_remove(reg1[c], memory_id))
         IN  Outcome("", {}, [m EXCEPT ![memory_id].is_active = FALSE],
                     reg2, save_vector_store(reg2, dsk, c))

Delete(memory_id) ==
    LET r == delete(mem, registry, disk, memory_id)
    IN  /\ call.op = "idle"
        /\ IF r.raised # "" THEN UNCHANGED durable ELSE durable' = r.mem
        /\ mem' = r.mem
        /\ registry' = r.registry
        /\ disk' = r.disk
        /\ call' = Idle
        /\ UNCHANGED <<nextId, now, hist>>

\* reset_vector_stores(), or the process ending and starting again between
\* two calls: the registry is empty, the files and the table stay.
Restart ==
    /\ call.op = "idle"
    /\ registry # EmptyMap
    /\ registry' = EmptyMap
    /\ call' = Idle
    /\ UNCHANGED <<mem, durable, nextId, disk, now, hist>>

---------------------------------------------------------------------------
(* The memory engine                                                       *)

Init ==
    /\ ix = FAISS_init
    /\ ixRemoved = {}
    /\ ixOp = [op |-> "init", q |-> NoVec, k |-> 0, ret |-> <<>>, before |-> 0]
    /\ pIn = [raw |-> "none", fact |-> "none"]
    /\ pOut = [outcome |-> "none"]
    /\ mem = EmptyMap
    /\ durable = EmptyMap
    /\ nextId = 1
    /\ registry = EmptyMap
    /\ disk = EmptyMap
    /\ call = Idle
    /\ now = 0
    /\ hist = {}
    /\ transcript = <<>>

Next ==
    \/ \E c \in Convs, facts \in BOOLEAN, bubbles \in BOOLEAN :
          AddBegin(c, facts, bubbles) /\ UNCHANGED <<ixVars, pVars, tVars>>
    \/ \E fact \in Texts, raw \in SysResponses :
          UpdateFact(fact, raw) /\ UNCHANGED <<ixVars, pVars, tVars>>
    \/ \E fact \in Texts, raw \in SysResponses :
          UpdateRaises(fact, raw) /\ UNCHANGED <<ixVars, pVars, tVars>>
    \/ \E bubbles \in BOOLEAN : UpdateEnd(bubbles) /\ UNCHANGED <<ixVars, pVars, tVars>>
    \/ \E text \in Texts \cup {""}, imp \in BubbleImportances :
          BubbleStep(text, imp) /\ UNCHANGED <<ixVars, pVars, tVars>>
    \/ BubblesEnd /\ UNCHANGED <<ixVars, pVars, tVars>>
    \/ \E c \in Convs, query \in Texts, limit \in 1..MaxLimit, inc \in BOOLEAN :
          Search(c, query, limit, inc) /\ UNCHANGED <<ixVars, pVars, tVars>>
    \/ \E id \in Ids, text \in Texts : Update(id, text) /\ UNCHANGED <<ixVars, pVars, tVars>>
    \/ \E id \in Ids : Delete(id) /\ UNCHANGED <<ixVars, pVars, tVars>>
    \/ Restart /\ UNCHANGED <<ixVars, pVars, tVars>>

Spec == Init /\ [][Next]_vars

---------------------------------------------------------------------------
(* Properties of the memory engine                                         *)

EntryIds(results) == { results[i].memory_id : i \in 1..Len(results) }

\* Every result list search() can return in the current state.
AllSearchResults ==
    { out.results :
        out \in UNION { search(registry, disk, mem, c, query, limit, inc, now) :
                          c \in Convs, query \in Texts,
                          limit \in 1..MaxLimit, inc \in BOOLEAN } }

\* The instance a search() of conversation c obtains in the current state,
\* and the files saved for c once it has.
ObtainedStore(c) == store_or_rebuild(registry, disk, mem, c).reg[c]
SavedStore(c) == FAISS_load(store_or_rebuild(registry, disk, mem, c).disk[c])

\* C3 (created memories are indexed): once add() has returned, every memory
\* the call created (and did not itself delete again) is mapped in the
\* index instance a later search() of its conversation obtains and in the
\* index saved for that conversation.
C3_CreatedAreIndexed ==
    call.op = "idle" =>
        \A id \in call.created :
            (id \in DOMAIN mem /\ mem[id].is_active) =>
                /\ id \in DOMAIN ObtainedStore(mem[id].conversation_id).id_map
                /\ id \in DOMAIN SavedStore(mem[id].conversation_id).id_map

\* C4 (search returns active memories only): between calls, every entry of
\* every result search() can return -- semantic, bubble or connected --
\* names a row of the table whose is_active is set.
C4_SearchActiveOnly ==
    call.op = "idle" =>
        \A results \in AllSearchResults :
            \A id \in EntryIds(results) : id \in DOMAIN mem /\ mem[id].is_active

\* A search() whose index answer names a memory that is inactive or no
\* longer stored, and that still returns an entry.
C4_Witness ==
    /\ call.op = "idle"
    /\ \E c \in Convs, query \in Texts, limit \in 1..MaxLimit :
          \E fr \in FAISS_search(ObtainedStore(c), embed_text(query), limit * 2) :
              /\ \E id \in ResultIds(fr) : id \notin DOMAIN mem \/ ~mem[id].is_active
              /\ search_results(mem, fr, limit, TRUE, now) # <<>>

\* C7 (REPLACE): a memory a completed REPLACE decision replaced is in no
\* later search() result; and when add() has returned, the memory a
\* REPLACE decision created (still active) is mapped in the index a
\* search() of its conversation obtains and is returned by a search()
\* whose query has the memory's embedding.
C7_Replace ==
    call.op = "idle" =>
        /\ \A results \in AllSearchResults : EntryIds(results) \cap hist = {}
        /\ \A p \in call.replaced :
              LET new == p[2] IN
              (new \in DOMAIN mem /\ mem[new].is_active) =>
                  LET c == mem[new].conversation_id IN
                  /\ new \in DOMAIN ObtainedStore(c).id_map
                  /\ \A query \in Texts :
                        embed_text(query) = mem[new].embedding =>
                            \A out \in search(registry, disk, mem, c, query,
                                              MaxLimit, FALSE, now) :
                                new \in EntryIds(out.results)

\* C8 (no hard delete): a committed row of the memories table is in the
\* committed table of every later state.
C8_NoHardDelete ==
    [][DOMAIN durable \subseteq DOMAIN durable']_vars

\* C9 (embedding in sync): every stored memory's embedding is the
\* Embedding Provider's vector for its current text, and the index slot
\* mapped to the memory holds that embedding (normalised).
C9_EmbeddingInSync ==
    \A id \in DOMAIN mem :
        /\ mem[id].embedding = embed_text(mem[id].memory_text)
        /\ \A c \in DOMAIN registry :
              id \in DOMAIN registry[c].id_map =>
                  registry[c].vecs[registry[c].id_map[id] + 1]
                      = normalize_L2(mem[id].embedding)

\* C10 (connection symmetry): between calls, whenever memory A's
\* connections hold B with score s, B is stored and B's connections hold A
\* with score s.
C10_ConnectionSymmetry ==
    call.op = "idle" =>
        \A a \in DOMAIN mem :
            \A i \in 1..Len(mem[a].connections) :
                LET conn == mem[a].connections[i] IN
                /\ conn.id \in DOMAIN mem
                /\ \E j \in 1..Len(mem[conn.id].connections) :
                      mem[conn.id].connections[j] = [id |-> a, score |-> conn.score]

---------------------------------------------------------------------------
(* The update phase with its decisions on record (specification            *)
(* SpecUpdate): add() calls that carry semantic facts only, pIn keeping    *)
(* the kind of the oracle's answer and pOut what the decision created.     *)

\* The kinds of answer C5 is about: an action name that is none of the
\* five, or an UPDATE, DELETE or REPLACE whose memory_id is missing or
\* names no row of the table m.
DecisionKind(raw, m) ==
    IF raw.kind # "json_object" \/ raw.action \in {Absent, NoneText, "<number>"}
    THEN "other"
    ELSE IF upper(raw.action) \notin ValidActions
    THEN "unknown_action"
    ELSE IF upper(raw.action) \notin {"UPDATE", "DELETE", "REPLACE"}
    THEN "other"
    ELSE IF raw.memory_id \in {AbsentId, NoneId}
    THEN "absent_target"
    ELSE IF raw.memory_id \notin DOMAIN m
    THEN "unresolved_target"
    ELSE "other"

InitUpdate ==
    /\ ix = FAISS_init
    /\ ixRemoved = {}
    /\ ixOp = [op |-> "init", q |-> NoVec, k |-> 0, ret |-> <<>>, before |-> 0]
    /\ pIn = [kind |-> "none", action |-> "", fact |-> ""]
    /\ pOut = [new |-> 0]
    /\ mem = EmptyMap
    /\ durable = EmptyMap
    /\ nextId = 1
    /\ registry = EmptyMap
    /\ disk = EmptyMap
    /\ call = Idle
    /\ now = 0
    /\ hist = {}
    /\ transcript = <<>>

\* UpdateFact, the answer's kind and the id of the memory it created (0 if
\* none) being recorded.
DecideFact(fact, raw) ==
    /\ UpdateFact(fact, raw)
    /\ pIn' = [kind |-> DecisionKind(raw, mem), action |-> raw.action, fact |-> fact]
    /\ pOut' = [new |-> IF nextId' = nextId THEN 0 ELSE nextId]
    /\ UNCHANGED <<ixVars, tVars>>

NextUpdate ==
    \/ \E c \in Convs : AddBegin(c, TRUE, FALSE) /\ UNCHANGED <<ixVars, pVars, tVars>>
    \/ \E fact \in Texts, raw \in SysResponses : DecideFact(fact, raw)
    \/ \E fact \in Texts, raw \in SysResponses :
          UpdateRaises(fact, raw) /\ UNCHANGED <<ixVars, pVars, tVars>>
    \/ UpdateEnd(FALSE) /\ UNCHANGED <<ixVars, pVars, tVars>>

SpecUpdate == InitUpdate /\ [][NextUpdate]_vars

\* C5 (fail-open on unresolvable decisions): when the decision just
\* processed had an unknown action name, or was an UPDATE, DELETE or
\* REPLACE with a missing or unresolvable target, a new memory was
\* created for the fact, is stored and is mapped in the index the update
\* phase holds.
C5_DegradesToAdd ==
    (call.op = "update_phase" /\ pIn.kind \in {"unknown_action", "absent_target",
                                               "unresolved_target"}) =>
        /\ pOut.new # 0
        /\ pOut.new \in DOMAIN mem
        /\ mem[pOut.new].is_active
        /\ pOut.new \in DOMAIN HeldStore.id_map

---------------------------------------------------------------------------
(* update() and delete() with the call on record (specification SpecApi):  *)
(* pIn keeps the arguments and the state the call started from, pOut what  *)
(* it raised and what it asked embed_text for.                             *)

NoCall ==
    [op |-> "none", memory_id |-> 0, text |-> "",
     mem |-> EmptyMap, registry |-> EmptyMap, disk |-> EmptyMap]

NoOutcome == [raised |-> "", embedded |-> {}]

InitApi ==
    /\ ix = FAISS_init
    /\ ixRemoved = {}
    /\ ixOp = [op |-> "init", q |-> NoVec, k |-> 0, ret |-> <<>>, before |-> 0]
    /\ pIn = NoCall
    /\ pOut = NoOutcome
    /\ mem = EmptyMap
    /\ durable = EmptyMap
    /\ nextId = 1
    /\ registry = EmptyMap
    /\ disk = EmptyMap
    /\ call = Idle
    /\ now = 0
    /\ hist = {}
    /\ transcript = <<>>

ApiUpdate(memory_id, text) ==
    /\ Update(memory_id, text)
    /\ pIn' = [op |-> "update", memory_id |-> memory_id, text |-> text,
               mem |-> mem, registry |-> registry, disk |-> disk]
    /\ pOut' = LET r == update(mem, registry, disk, memory_id, text)
               IN  [raised |-> r.raised, embedded |-> r.embedded]
    /\ UNCHANGED <<ixVars, tVars>>

ApiDelete(memory_id) ==
    /\ Delete(memory_id)
    /\ pIn' = [op |-> "delete", memory_id |-> memory_id, text |-> "",
               mem |-> mem, registry |-> registry, disk |-> disk]
    /\ pOut' = LET r == delete(mem, registry, disk, memory_id)
               IN  [raised |-> r.raised, embedded |-> r.embedded]
    /\ UNCHANGED <<ixVars, tVars>>

\* Any other step of the engine: no update() or delete() is on record.
Unrecorded ==
    /\ pIn' = NoCall
    /\ pOut' = NoOutcome
    /\ UNCHANGED <<ixVars, tVars>>

NextApi ==
    \/ \E c \in Convs, facts \in BOOLEAN, bubbles \in BOOLEAN :
          AddBegin(c, facts, bubbles) /\ Unrecorded
    \/ \E fact \in Texts, raw \in SysResponses : UpdateFact(fact, raw) /\ Unrecorded
    \/ \E fact \in Texts, raw \in SysResponses : UpdateRaises(fact, raw) /\ Unrecorded
    \/ \E bubbles \in BOOLEAN : UpdateEnd(bubbles) /\ Unrecorded
    \/ \E text \in Texts \cup {""}, imp \in BubbleImportances :
          BubbleStep(text, imp) /\ Unrecorded
    \/ BubblesEnd /\ Unrecorded
    \/ \E id \in Ids, text \in Texts : ApiUpdate(id, text)
    \/ \E id \in Ids : ApiDelete(id)
    \/ Restart /\ Unrecorded

SpecApi == InitApi /\ [][NextApi]_vars

\* The index of the conversation of memory id as the recorded call
\* obtained it with get_vector_store().
IndexBefore(id) ==
    LET c == pIn.mem[id].conversation_id
    IN  get_vector_store(pIn.registry, pIn.disk, c)[c]

\* The index of the conversation of memory id after the recorded call.
IndexAfter(id) == registry[pIn.mem[id].conversation_id]

\* C16 (update): after update(id, text) on an existing memory the table
\* holds the new text and its embedding, the index maps id to exactly one
\* slot and that slot holds the new embedding, Count is unchanged if id was
\* mapped before, and the slot count has grown by exactly one.
C16_Update ==
    (pIn.op = "update" /\ pIn.memory_id \in DOMAIN pIn.mem) =>
        LET id     == pIn.memory_id
            before == IndexBefore(id)
            after  == IndexAfter(id)
        IN  /\ pOut.raised = ""
            /\ mem[id].memory_text = pIn.text
            /\ mem[id].embedding = embed_text(pIn.text)
            /\ durable[id] = mem[id]
            /\ id \in DOMAIN after.id_map
            /\ { idx \in DOMAIN after.reverse_map : after.reverse_map[idx] = id }
                  = { after.id_map[id] }
            /\ StoredVector(after, id) = normalize_L2(embed_text(pIn.text))
            /\ id \in DOMAIN before.id_map => FAISS_count(after) = FAISS_count(before)
            /\ ntotal(after) = ntotal(before) + 1

\* An update() of a memory that was mapped, with a text other than the one
\* it had.
C16_Witness ==
    /\ pIn.op = "update"
    /\ pIn.memory_id \in DOMAIN pIn.mem
    /\ pIn.memory_id \in DOMAIN IndexBefore(pIn.memory_id).id_map
    /\ pIn.mem[pIn.memory_id].memory_text # pIn.text
    /\ pIn.mem[pIn.memory_id].embedding # embed_text(pIn.text)

\* C17 (delete): delete(id) on an existing memory sets is_active to false
\* and unmaps id from the conversation's index; the row with its text,
\* embedding and connections and the vector slots stay, and no other row or
\* mapping changes.
C17_Delete ==
    (pIn.op = "delete" /\ pIn.memory_id \in DOMAIN pIn.mem) =>
        LET id     == pIn.memory_id
            before == IndexBefore(id)
            after  == IndexAfter(id)
        IN  /\ pOut.raised = ""
            /\ DOMAIN mem = DOMAIN pIn.mem
            /\ mem[id] = [pIn.mem[id] EXCEPT !.is_active = FALSE]
            /\ \A other \in (DOMAIN mem) \ {id} : mem[other] = pIn.mem[other]
            /\ durable = mem
            /\ id \notin DOMAIN after.id_map
            /\ after.vecs = before.vecs
            /\ DOMAIN after.id_map = (DOMAIN before.id_map) \ {id}
            /\ \A other \in DOMAIN after.id_map :
                  /\ after.id_map[other] = before.id_map[other]
                  /\ after.reverse_map[after.id_map[other]] = other
            /\ \A c \in (DOMAIN pIn.registry) \ {pIn.mem[id].conversation_id} :
                  registry[c] = pIn.registry[c]

\* A delete() of an active, mapped memory while another memory is mapped.
C17_Witness ==
    /\ pIn.op = "delete"
    /\ pIn.memory_id \in DOMAIN pIn.mem
    /\ pIn.mem[pIn.memory_id].is_active
    /\ pIn.memory_id \in DOMAIN IndexBefore(pIn.memory_id).id_map
    /\ DOMAIN IndexAfter(pIn.memory_id).id_map # {}

\* C18 (not found): update() and delete() with an id the table does not
\* hold raise the not-found error, make no embedding request and leave the
\* table, every index and every persisted index as they were.
C18_NotFound ==
    (pIn.op \in {"update", "delete"} /\ pIn.memory_id \notin DOMAIN pIn.mem) =>
        /\ pOut.raised = "ValueError"
        /\ pOut.embedded = {}
        /\ mem = pIn.mem
        /\ durable = pIn.mem
        /\ registry = pIn.registry
        /\ disk = pIn.disk

\* An update() with an unknown id while the table holds a memory and an
\* index file exists, no index being loaded.
C18_Witness ==
    /\ pIn.op = "update"
    /\ pIn.memory_id \notin DOMAIN pIn.mem
    /\ DOMAIN pIn.mem # {}
    /\ DOMAIN pIn.disk # {}
    /\ DOMAIN pIn.registry = {}

---------------------------------------------------------------------------
(* extraction_phase and the whole of add() (specification SpecAdd): pIn    *)
(* keeps the arguments and the state the call started from, pOut what the  *)
(* extraction returned or raised and which oracles it asked.               *)

MaxTurns == 3      \* turns passed to one add() call (bound)
MaxPairs == 2      \* turn pairs the messages table may hold (bound)

SUMMARY_TRIGGER_COUNT == 20

UserTurn == [role |-> "user", content |-> "hi"]
AssistantTurn == [role |-> "assistant", content |-> "hello"]

\* The messages argument: the first 0..MaxTurns turns of a conversation
\* that the user opens and in which the two sides alternate.
TurnLists ==
    { [i \in 1..n |-> IF i % 2 = 1 THEN UserTurn ELSE AssistantTurn] : n \in 0..MaxTurns }

\* What the Fact Oracle may answer: no content, text that is not JSON, a
\* JSON list, a JSON number, or a JSON object in which "semantic" and
\* "bubbles" are each missing, an empty list or a list of one item.
FactResponses ==
    [kind : {"none", "notjson", "json_list", "json_number"},
     semantic : {"absent"}, bubbles : {"absent"}]
    \cup [kind : {"json_object"},
          semantic : {"absent", "empty", "items"},
          bubbles : {"absent", "empty", "items"}]

NoMemories == [semantic |-> <<>>, bubbles |-> <<>>]

\* The list under a key of the parsed object, [] being put in for a
\* missing key.
Listed(v, item) == IF v = "items" THEN <<item>> ELSE <<>>

\* extract_memories(...): only json.JSONDecodeError is caught.  Content
\* None fails at `"```" in json_str`, a number at `"semantic" not in
\* result`, a list at result["semantic"] = [].
extract_memories(raw) ==
    CASE raw.kind = "notjson" -> [raised |-> "", result |-> NoMemories]
      [] raw.kind \in {"none", "json_list", "json_number"} ->
            [raised |-> "TypeError", result |-> NoMemories]
      [] raw.kind = "json_object" ->
            [raised |-> "",
             result |-> [semantic |-> Listed(raw.semantic, "tea"),
                         bubbles  |-> Listed(raw.bubbles, [text |-> "coffee"])]]

Message(conversation_id, sender, message_text) ==
    [conversation_id |-> conversation_id, sender |-> sender, message_text |-> message_text]

\* Message rows of a conversation.
CountMessages(tr, c) == Cardinality({ i \in 1..Len(tr) : tr[i].conversation_id = c })

\* A trigger that fires two messages late.
summary_due_late(tr, c) ==
    CountMessages(tr, c) > 2 /\ CountMessages(tr, c) % SUMMARY_TRIGGER_COUNT = 2

\* generate_conversation_summary asks the summary model only when the
\* count of the conversation's messages is a positive multiple of
\* SUMMARY_TRIGGER_COUNT.
summary_due(tr, c) ==
    CountMessages(tr, c) # 0 /\ CountMessages(tr, c) % SUMMARY_TRIGGER_COUNT = 0

ExtractionOutcome(raised, asked, tr, result) ==
    [raised |-> raised, asked |-> asked, transcript |-> tr, result |-> result]

\* An extraction_phase that asks the Fact Oracle before it looks at the
\* number of turns.
extraction_phase_asks_first(tr, messages, c, raw) ==
    IF Len(messages) < 2
    THEN ExtractionOutcome("", {"fact"}, tr, NoMemories)
    ELSE LET e   == extract_memories(raw)
             tr2 == tr \o << Message(c, "user", messages[Len(messages) - 1].content),
                             Message(c, "assistant", messages[Len(messages)].content) >>
         IN  IF e.raised # ""
             THEN ExtractionOutcome(e.raised, {"fact"}, tr, NoMemories)
             ELSE ExtractionOutcome("", {"fact"}, tr2, e.result)

\* extraction_phase(db, messages, conversation_id) on the messages table
\* tr, the Fact Oracle answering raw: what it raises ("" if nothing), the
\* models it asks, the table afterwards and the lists it returns.
extraction_phase(tr, messages, c, raw) ==
    IF Len(messages) < 2
    THEN ExtractionOutcome("", {}, tr, NoMemories)
    ELSE LET user_msg      == messages[Len(messages) - 1]
             assistant_msg == messages[Len(messages)]
             e             == extract_memories(raw)
             tr2           == tr \o << Message(c, "user", user_msg.content),
                                       Message(c, "assistant", assistant_msg.content) >>
         IN  IF e.raised # ""
             THEN ExtractionOutcome(e.raised, {"fact"}, tr, NoMemories)
             ELSE ExtractionOutcome("",
                                    {"fact"} \cup (IF summary_due(tr2, c)
                                                   THEN {"summary"} ELSE {}),
                                    tr2, e.result)

NoAdd ==
    [op |-> "none", messages |-> <<>>, conv |-> 0, kind |-> "",
     raw |-> [kind |-> "", semantic |-> "", bubbles |-> ""],
     transcript |-> <<>>, mem |-> EmptyMap, registry |-> EmptyMap, disk |-> EmptyMap]

NoExtraction == [raised |-> "", asked |-> {}, result |-> NoMemories]

InitAdd ==
    /\ ix = FAISS_init
    /\ ixRemoved = {}
    /\ ixOp = [op |-> "init", q |-> NoVec, k |-> 0, ret |-> <<>>, before |-> 0]
    /\ pIn = NoAdd
    /\ pOut = NoExtraction
    /\ mem = EmptyMap
    /\ durable = EmptyMap
    /\ nextId = 1
    /\ registry = EmptyMap
    /\ disk = EmptyMap
    /\ call = Idle
    /\ now = 0
    /\ hist = {}
    /\ transcript = <<>>

\* add(messages, conversation_id) up to the point where it enters
\* update_phase or create_bubbles, or returns.  An exception of the
\* extraction escapes add() and ends the process, as in UpdateRaises.
AddCall(c, messages, raw) ==
    LET e == extraction_phase(transcript, messages, c, raw)
    IN  /\ call.op = "idle"
        /\ Len(e.transcript) <= 2 * MaxPairs
        /\ transcript' = e.transcript
        /\ IF e.raised # ""
           THEN /\ mem' = durable
                /\ registry' = EmptyMap
                /\ call' = Idle
                /\ UNCHANGED <<durable, nextId, disk, now, hist>>
           ELSE AddBegin(c, e.result.semantic # <<>>, e.result.bubbles # <<>>)
        /\ pIn' = [op |-> "add", messages |-> messages, conv |-> c, kind |-> raw.kind,
                   raw |-> raw,
                   transcript |-> transcript, mem |-> mem, registry |-> registry,
                   disk |-> disk]
        /\ pOut' = [raised |-> e.raised, asked |-> e.asked, result |-> e.result]
        /\ UNCHANGED ixVars

\* Any later step of the call: the record of its extraction is dropped.
AfterExtraction ==
    /\ pIn' = NoAdd
    /\ pOut' = NoExtraction
    /\ UNCHANGED <<ixVars, tVars>>

NextAdd ==
    \/ \E c \in Convs, messages \in TurnLists, raw \in FactResponses :
          AddCall(c, messages, raw)
    \/ \E fact \in Texts, raw \in SysResponses : UpdateFact(fact, raw) /\ AfterExtraction
    \/ \E fact \in Texts, raw \in SysResponses : UpdateRaises(fact, raw) /\ AfterExtraction
    \/ \E bubbles \in BOOLEAN : UpdateEnd(bubbles) /\ AfterExtraction
    \/ \E text \in Texts \cup {""}, imp \in BubbleImportances :
          BubbleStep(text, imp) /\ AfterExtraction
    \/ BubblesEnd /\ AfterExtraction

SpecAdd == InitAdd /\ [][NextAdd]_vars

\* C19 (short conversation): add() with fewer than 2 turns returns empty
\* semantic and bubble lists, asks no oracle, has returned, and leaves the
\* memories table, every index and every index file as they were.
C19_ShortConversation ==
    (pIn.op = "add" /\ Len(pIn.messages) < 2) =>
        /\ pOut.raised = ""
        /\ pOut.result = NoMemories
        /\ pOut.asked = {}
        /\ call.op = "idle"
        /\ mem = pIn.mem
        /\ durable = pIn.mem
        /\ registry = pIn.registry
        /\ disk = pIn.disk

\* An add() with one turn while a memory is stored and mapped in the
\* conversation's index.
C19_Witness ==
    /\ pIn.op = "add"
    /\ Len(pIn.messages) = 1
    /\ \E id \in DOMAIN pIn.mem :
          /\ pIn.mem[id].is_active
          /\ pIn.mem[id].conversation_id \in DOMAIN pIn.registry
          /\ id \in DOMAIN pIn.registry[pIn.mem[id].conversation_id].id_map

\* The messages table after the rows for the given turns have been added
\* to tr, a turn's role being its sender.
WithTurns(tr, c, turns) ==
    tr \o [i \in 1..Len(turns) |-> Message(c, turns[i].role, turns[i].content)]

\* What a messages table says: conversation and text of each row, the
\* sender left aside.
Said(tr) ==
    [i \in 1..Len(tr) |-> [conversation_id |-> tr[i].conversation_id,
                           message_text |-> tr[i].message_text]]

\* C20 (transcript persistence): after add() with fewer than 2 turns the
\* turns supplied have been appended to the conversation's transcript;
\* after add() with 2 or more turns and a Fact Oracle answer that is not a
\* JSON object, the latest turn pair has been appended.
C20_TranscriptPersists ==
    /\ (pIn.op = "add" /\ Len(pIn.messages) < 2) =>
          Said(transcript) = Said(WithTurns(pIn.transcript, pIn.conv, pIn.messages))
    /\ (pIn.op = "add" /\ Len(pIn.messages) >= 2 /\ pIn.kind # "json_object") =>
          Said(transcript) =
              Said(WithTurns(pIn.transcript, pIn.conv,
                             SubSeq(pIn.messages, Len(pIn.messages) - 1,
                                    Len(pIn.messages))))

\* The Fact Oracle answers C21 calls malformed: text that is not JSON, JSON
\* that is not an object, and an object lacking "semantic" or "bubbles".
MalformedFacts(raw) ==
    \/ raw.kind \in {"notjson", "json_list", "json_number"}
    \/ raw.kind = "json_object" /\ "absent" \in {raw.semantic, raw.bubbles}

\* C21 (malformed Fact Oracle output): add() with 2 or more turns and a
\* malformed answer does not raise; an answer that is no object is
\* recovered to empty semantic and bubble lists and the call returns
\* having created no memory; a field missing from an object is empty.
C21_MalformedRecovered ==
    (pIn.op = "add" /\ Len(pIn.messages) >= 2 /\ MalformedFacts(pIn.raw)) =>
        /\ pOut.raised = ""
        /\ pIn.raw.kind # "json_object" =>
              /\ pOut.result = NoMemories
              /\ call.op = "idle"
              /\ mem = pIn.mem
        /\ pIn.raw.semantic = "absent" => pOut.result.semantic = <<>>
        /\ pIn.raw.bubbles = "absent" => pOut.result.bubbles = <<>>

---------------------------------------------------------------------------
(* search() over bubbles of varied importance and age (specification       *)
(* SpecRank): the table and the index are those left by add() calls that   *)
(* each created one bubble; pIn keeps the arguments of the last search()   *)
(* and pOut what it returned.                                              *)

MaxRankRows == 2   \* bubbles in the table (bound)
MaxTick     == 3   \* the clock stops here (bound)

\* Importances the Fact Oracle gives the bubbles (tenths).
RankImportances == { [t |-> "float", v |-> x] : x \in {0, 3, 5, 10} }

\* IndexFlatIP is taken to return equal scores in slot order while the
\* table is built; the ids stand in the order of their slots then.
SlotOrder(lists) ==
    CHOOSE r \in lists :
        \A i, j \in 1..Len(r) :
            (i < j /\ r[i].score = r[j].score) => r[i].memory_id < r[j].memory_id

\* add() with one bubble descriptor at time at, on the table and the
\* index in st: create_bubbles' loop body, run once.
create_bubble(st, text, imp, at) ==
    LET id        == st.nextId
        embedding == embed_text(text)
        bubble    == Row(1, text, embedding, TRUE, at, coerce_importance(imp))
        store     == FAISS_add(st.store, id, embedding)
        results   == SlotOrder(FAISS_search(store, embedding, MAX_CONNECTIONS * 2))
    IN  [mem     |-> find_connections(With(st.mem, id, bubble), results, id),
         store   |-> store,
         nextId  |-> id + 1]

RECURSIVE create_all(_)
create_all(descs) ==
    IF descs = <<>> THEN [mem |-> EmptyMap, store |-> FAISS_init, nextId |-> 1]
    ELSE LET d == descs[Len(descs)]
         IN  create_bubble(create_all(SubSeq(descs, 1, Len(descs) - 1)), d.text, d.imp, d.at)

\* The descriptors of the bubbles with the times of their add() calls, in
\* the order of the calls.
RankDescs ==
    { descs \in UNION { [1..n -> [text : Texts, imp : RankImportances, at : 0..MaxTick]] :
                          n \in 1..MaxRankRows } :
        \A i \in 1..(Len(descs) - 1) : descs[i].at <= descs[i + 1].at }

NoSearch == [op |-> "none", query |-> "", limit |-> 0, include_connections |-> FALSE]

\* The state after the add() calls of descs.
Created(descs) ==
    LET st == create_all(descs)
    IN  /\ mem = st.mem
        /\ durable = st.mem
        /\ nextId = st.nextId
        /\ registry = With(EmptyMap, 1, st.store)
        /\ disk = With(EmptyMap, 1, FAISS_save(st.store))
        /\ now = descs[Len(descs)].at
        /\ call = Idle
        /\ hist = {}
        /\ transcript = <<>>
        /\ ix = FAISS_init
        /\ ixRemoved = {}
        /\ ixOp = [op |-> "init", q |-> NoVec, k |-> 0, ret |-> <<>>, before |-> 0]
        /\ pIn = NoSearch
        /\ pOut = [results |-> <<>>]

InitRank == \E descs \in RankDescs : Created(descs)

\* search(query, 1, limit, include_connections), its arguments and result
\* on record.
RecordedSearch(query, limit, include_connections) ==
    /\ call.op = "idle"
    /\ \E out \in search(registry, disk, mem, 1, query, limit, include_connections, now) :
          /\ registry' = out.reg
          /\ disk' = out.disk
          /\ pOut' = [results |-> out.results]
    /\ pIn' = [op |-> "search", query |-> query, limit |-> limit,
               include_connections |-> include_connections]
    /\ call' = Idle
    /\ UNCHANGED <<mem, durable, nextId, now, hist>>
    /\ UNCHANGED <<ixVars, tVars>>

\* Half a day passes.
Tick ==
    /\ now < MaxTick
    /\ now' = now + 1
    /\ pIn' = NoSearch
    /\ pOut' = [results |-> <<>>]
    /\ UNCHANGED <<mem, durable, nextId, registry, disk, call, hist>>
    /\ UNCHANGED <<ixVars, tVars>>

NextRank ==
    \/ \E query \in Texts, limit \in 1..MaxLimit, inc \in BOOLEAN :
          RecordedSearch(query, limit, inc)
    \/ Tick

SpecRank == InitRank /\ [][NextRank]_vars

\* The entries of the recorded result that are not of type connected.
Kept == SelectSeq(pOut.results, LAMBDA e : e.type # "connected")

\* The similarity the recorded search's query has with memory id.
Similarity(id) == InnerProduct(normalize_L2(embed_text(pIn.query)),
                               normalize_L2(mem[id].embedding))

\* The final score search() computes for memory id.
FinalScore(id) == final_score(mem[id], Similarity(id), now)

\* C22 (ranking by recency): of two episodic memories in the same result
\* with equal similarity and equal importance, the one with the later
\* occurred_at has the strictly higher final_score and stands first.
C22_RecencyRanks ==
    pIn.op = "search" =>
        \A i, j \in 1..Len(Kept) :
            LET a == Kept[i].memory_id
                b == Kept[j].memory_id
            IN  (/\ mem[a].is_episodic /\ mem[b].is_episodic
                 /\ Similarity(a) = Similarity(b)
                 /\ mem[a].importance = mem[b].importance
                 /\ mem[a].occurred_at > mem[b].occurred_at)
                => (FinalScore(a) > FinalScore(b) /\ i < j)

\* The recency factor search() gives memory id.
Recency(id) ==
    IF mem[id].is_episodic /\ mem[id].occurred_at # NoTime
    THEN recency_of(days_between(now, mem[id].occurred_at))
    ELSE 1000000

\* C23 (ranking by importance): of two memories in the same result with
\* equal positive similarity and equal recency, the one with the higher
\* stored importance has the higher final_score and stands first, the
\* importance 0 included.
C23_ImportanceRanks ==
    pIn.op = "search" =>
        \A i, j \in 1..Len(Kept) :
            LET a == Kept[i].memory_id
                b == Kept[j].memory_id
            IN  (/\ Similarity(a) = Similarity(b) /\ Similarity(a) > 0
                 /\ Recency(a) = Recency(b)
                 /\ mem[a].importance > mem[b].importance)
                => (FinalScore(a) > FinalScore(b) /\ i < j)

\* similarity x importance x recency with the importance as stored.
StatedScore(id) == Similarity(id) * mem[id].importance * Recency(id)

\* The ids the index search of the recorded call could return: the
\* candidates.
Candidates ==
    UNION { ResultIds(fr) :
              fr \in FAISS_search(registry[1], embed_text(pIn.query), pIn.limit * 2) }

\* C24 (sort and truncate): the entries that are not connected are at most
\* limit, have distinct ids, stand in the order of non-increasing
\* final_score = similarity x importance x recency, carry that score, and
\* no active candidate left out has a higher final_score than a kept one.
C24_SortedTruncated ==
    pIn.op = "search" =>
        /\ Len(Kept) <= pIn.limit
        /\ \A i, j \in 1..Len(Kept) : i # j => Kept[i].memory_id # Kept[j].memory_id
        /\ \A i \in 1..Len(Kept) :
              Kept[i].score = round4(StatedScore(Kept[i].memory_id))
        /\ \A i, j \in 1..Len(Kept) :
              i < j => StatedScore(Kept[i].memory_id) >= StatedScore(Kept[j].memory_id)
        /\ \A id \in Candidates \ { Kept[i].memory_id : i \in 1..Len(Kept) } :
              mem[id].is_active =>
                  \A i \in 1..Len(Kept) :
                      StatedScore(id) <= StatedScore(Kept[i].memory_id)

---------------------------------------------------------------------------
(* search() with connection expansion (specification SpecExpand): the      *)
(* table holds MaxExpandRows bubbles created at the same time, each by its *)
(* own add() call, with text and importance as the Fact Oracle gave them,  *)
(* importance 0.5 or, for at most MaxImportant of them, 1.0.               *)

MaxExpandRows == 6   \* bubbles in the table (bound)
MaxImportant  == 2   \* bubbles among them with importance 1.0 (bound)

ExpandImportances == { [t |-> "float", v |-> x] : x \in {5, 10} }

ExpandDescs ==
    { descs \in [1..MaxExpandRows -> [text : Texts, imp : ExpandImportances, at : {0}]] :
        Cardinality({ i \in 1..MaxExpandRows : descs[i].imp.v = 10 }) <= MaxImportant }

InitExpand == \E descs \in ExpandDescs : Created(descs)

\* The record of the last search() is dropped: the next one is recorded
\* afresh.
Forget ==
    /\ pIn.op = "search"
    /\ pIn' = NoSearch
    /\ pOut' = [results |-> <<>>]
    /\ UNCHANGED <<sysVars, ixVars, tVars>>

NextExpand ==
    \/ \E query \in Texts, limit \in 1..MaxLimit, inc \in BOOLEAN :
          pIn.op = "none" /\ RecordedSearch(query, limit, inc)
    \/ Forget

SpecExpand == InitExpand /\ [][NextExpand]_vars

\* The entries of the recorded result that are of type connected.
Shown == SelectSeq(pOut.results, LAMBDA e : e.type = "connected")

\* C25 (connection expansion): with include_connections set at most 3
\* connected entries are appended, at most 2 for each kept result, each
\* with score 0 and each a stored connection of the kept result it is
\* appended for, and no memory id stands twice in the result; with
\* include_connections unset there is no connected entry.
C25_Expansion ==
    pIn.op = "search" =>
        /\ ~pIn.include_connections => Shown = <<>>
        /\ Len(Shown) <= 3
        /\ \A i \in 1..Len(Shown) : Shown[i].score = 0
        /\ \E f \in [1..Len(Shown) -> 1..Len(Kept)] :
              /\ \A i \in 1..Len(Shown) :
                    Shown[i].memory_id \in ConnIds(mem[Kept[f[i]].memory_id])
              /\ \A k \in 1..Len(Kept) :
                    Cardinality({ i \in 1..Len(Shown) : f[i] = k }) <= 2
        /\ \A i, j \in 1..Len(pOut.results) :
              i # j => pOut.results[i].memory_id # pOut.results[j].memory_id
        /\ pOut.results = Kept \o Shown

\* Three connected entries are shown for two kept results, and a fourth
\* active connection among the first two of a kept result is not.
C25_Witness ==
    /\ pIn.op = "search"
    /\ pIn.include_connections
    /\ Len(Kept) = 2
    /\ Len(Shown) = 3
    /\ \E k \in 1..Len(Kept) :
          LET conns == mem[Kept[k].memory_id].connections
          IN  \E n \in 1..Min(2, Len(conns)) :
                 /\ mem[conns[n].id].is_active
                 /\ conns[n].id \notin EntryIds(pOut.results)

---------------------------------------------------------------------------
(* Further properties of the memory engine (specification Spec)            *)

\* The active memories of conversation c (every row has an embedding).
ActiveIds(c) == { i \in DOMAIN mem : mem[i].conversation_id = c /\ mem[i].is_active }

\* The index of conversation c as a call gets it from get_vector_store().
IndexAtCall(c) == get_vector_store(registry, disk, c)[c]

\* C26 (lazy rebuild): a search() on conversation c leaves the index of c
\* rebuilt if and only if the index it obtained had Count = 0; a rebuilt
\* index maps exactly the active memories of c, each to a slot holding its
\* embedding, and is saved; an index with Count > 0 is left as it is, even
\* when it lacks an active memory.
C26_LazyRebuild ==
    call.op = "idle" =>
        \A c \in Convs, query \in Texts, limit \in 1..MaxLimit, inc \in BOOLEAN :
            \A out \in search(registry, disk, mem, c, query, limit, inc, now) :
                LET before == IndexAtCall(c)
                    after  == out.reg[c]
                IN  IF FAISS_count(before) = 0
                    THEN /\ DOMAIN after.id_map = ActiveIds(c)
                         /\ ntotal(after) = Cardinality(ActiveIds(c))
                         /\ \A id \in ActiveIds(c) :
                               StoredVector(after, id) = normalize_L2(mem[id].embedding)
                         /\ FAISS_load(out.disk[c]) = after
                    ELSE /\ after = before
                         /\ out.disk = disk

\* No add() is in progress and the index of a conversation has Count = 0
\* while the conversation has an active and a soft-deleted memory.
C26_Witness ==
    /\ call.op = "idle"
    /\ \E c \in Convs :
          /\ FAISS_count(IndexAtCall(c)) = 0
          /\ ActiveIds(c) # {}
          /\ \E i \in DOMAIN mem : mem[i].conversation_id = c /\ ~mem[i].is_active

\* search_similar_memories(db, conversation_id, query_embeddings, limit):
\* the lists of memory ids it may return -- the rows found for the ids of
\* the index results, in the order of the results.  The query on the table
\* has no is_active condition.
search_similar_memories(reg, dsk, m, conversation_id, query_embeddings, limit) ==
    LET look == store_or_rebuild(reg, dsk, m, conversation_id)
    IN  { SelectSeq([i \in 1..Len(results) |-> results[i].memory_id],
                    LAMBDA mid : mid \in DOMAIN m) :
          results \in FAISS_search(look.reg[conversation_id], query_embeddings, limit) }

\* C27 (similar memories are active): whenever update_phase is about to
\* look up the similar memories of a candidate fact, every memory of the
\* list it will submit to the Action Oracle has is_active = true.
C27_SimilarAreActive ==
    (call.op = "update_phase" /\ call.done < MaxFacts) =>
        \A fact \in Texts :
            \A similar_memories \in
                  search_similar_memories(registry, disk, mem, call.conv,
                                          embed_text(fact), 10) :
                \A i \in 1..Len(similar_memories) : mem[similar_memories[i]].is_active

\* The ids the add() call in progress has removed from its index.
Removed == call.pending \cup { p[1] : p \in call.replaced }

\* C29 (sequential fact resolution): when update_phase has processed a
\* fact and looks up the similar memories of the next one, the index the
\* lookup runs against reflects the index mutations made so far in the
\* call: a memory added for an earlier fact is mapped in it and a memory
\* removed for an earlier fact is not, whatever the index held when the
\* call began.
C29_LookupSeesMutations ==
    (call.op = "update_phase" /\ call.done >= 1 /\ call.done < MaxFacts) =>
        LET lookup == ObtainedStore(call.conv)
        IN  /\ \A id \in call.created : id \in DOMAIN lookup.id_map
            /\ \A id \in Removed \ call.created : id \notin DOMAIN lookup.id_map

\* C30 (no cross-fact atomicity): when update_phase aborts while processing
\* a fact after it has processed others (the step that ends the call and
\* empties the registry), what the database durably holds afterwards is the
\* table with the mutations made for the earlier facts.
C30_EarlierFactsCommitted ==
    [][(call.op = "update_phase" /\ call.done >= 1 /\ registry' = EmptyMap)
          => durable' = flush(mem, call.pending)]_vars

---------------------------------------------------------------------------
(* add() over two conversations (specification SpecPartition)              *)

MaxPartConv == 2   \* conversations 1..MaxPartConv of SpecPartition (bound)

\* The answers of the Action Oracle taken in these runs: well-formed
\* decisions, with every target id.
PartResponses ==
    { r \in SysResponses : /\ r.kind = "json_object"
                           /\ r.action \in ValidActions
                           /\ r.memory_id \in Ids
                           /\ r.text = Absent }

NextPartition ==
    \/ \E c \in 1..MaxPartConv, facts \in BOOLEAN, bubbles \in BOOLEAN :
          AddBegin(c, facts, bubbles) /\ UNCHANGED <<ixVars, pVars, tVars>>
    \/ \E fact \in Texts, raw \in PartResponses :
          UpdateFact(fact, raw) /\ UNCHANGED <<ixVars, pVars, tVars>>
    \/ \E bubbles \in BOOLEAN : UpdateEnd(bubbles) /\ UNCHANGED <<ixVars, pVars, tVars>>
    \/ \E text \in Texts :
          BubbleStep(text, [t |-> "float", v |-> DefaultImportance])
          /\ UNCHANGED <<ixVars, pVars, tVars>>
    \/ BubblesEnd /\ UNCHANGED <<ixVars, pVars, tVars>>

SpecPartition == Init /\ [][NextPartition]_vars

\* Every id mapped in a registered index belongs to a stored memory of the
\* index's conversation.
IndexWithinConversation ==
    \A c \in DOMAIN registry : \A id \in DOMAIN registry[c].id_map :
        id \in DOMAIN mem => mem[id].conversation_id = c

\* Every connection edge joins two memories of one conversation.
EdgesWithinConversation ==
    \A a \in DOMAIN mem : \A b \in ConnIds(mem[a]) :
        b \in DOMAIN mem => mem[b].conversation_id = mem[a].conversation_id

\* A step of an add() call leaves the rows of the other conversations as
\* they are.
OtherRowsKept ==
    call.op # "idle" =>
        \A id \in DOMAIN mem :
            mem[id].conversation_id # call.conv =>
                id \in DOMAIN mem' /\ mem'[id] = mem[id]

\* C28 (conversation partitioning): in every reachable state the ids mapped
\* in the index of a conversation are memories of that conversation and
\* every connection edge joins two memories of one conversation, and no
\* step of an add() on a conversation changes a row of another one.
C28_Partitioned ==
    /\ [](IndexWithinConversation /\ EdgesWithinConversation)
    /\ [][OtherRowsKept]_vars

---------------------------------------------------------------------------
(* Further properties of the update phase (specification SpecUpdate)       *)

\* C34 (NOOP is a no-op): the step of update_phase that applies a NOOP
\* decision leaves the memories table as it is -- no row created, changed
\* or marked for deletion -- and leaves the ids mapped in the index
\* update_phase holds as they are.
C34_NoopChangesNothing ==
    [][(pIn'.action = "NOOP" /\ call'.op = "update_phase"
            /\ call'.done = call.done + 1) =>
          /\ mem' = mem
          /\ nextId' = nextId
          /\ call'.pending = call.pending
          /\ HeldStore'.id_map = HeldStore.id_map]_vars

\* A NOOP decision has been applied on a conversation that has a memory,
\* mapped in the held index.
C34_Witness ==
    /\ call.op = "update_phase" /\ call.done >= 1
    /\ pIn.action = "NOOP"
    /\ mem # EmptyMap
    /\ DOMAIN HeldStore.id_map # {}

---------------------------------------------------------------------------
(* Further properties of the connection graph                              *)

\* C32 (only episodic memories carry connections): no semantic memory has
\* a connection, and no connection of an episodic memory names a semantic
\* memory.
C32_OnlyEpisodicConnected ==
    \A a \in DOMAIN mem :
        /\ ~mem[a].is_episodic => mem[a].connections = <<>>
        /\ \A b \in ConnIds(mem[a]) : b \in DOMAIN mem => mem[b].is_episodic

---------------------------------------------------------------------------
(* Further properties of one FAISSVectorStore (specification SpecIndex)    *)

\* C37 (zero-norm query is rejected): a search whose query vector has norm
\* 0 returns no ranked list of ids.
C37_ZeroNormRejected ==
    (ixOp.op = "search" /\ Norm(ixOp.q) = 0) => ixOp.ret = <<>>

---------------------------------------------------------------------------
(* The summary trigger over a long conversation (specification             *)
(* SpecSummary): add() calls on conversation 1 whose extraction finds      *)
(* nothing to store, pIn keeping the call and the number of calls that     *)
(* had persisted their pair before it, pOut what the extraction did.       *)

MaxSummaryPairs == 20   \* turn pairs the messages table may hold (bound)

\* Answers of the Fact Oracle that yield no fact and no bubble, or make
\* the extraction raise.
QuietResponses ==
    { raw \in FactResponses : /\ raw.semantic \in {"absent", "empty"}
                              /\ raw.bubbles \in {"absent", "empty"} }

\* The messages argument: nothing, the user's turn alone, or the pair.
SummaryTurns == { messages \in TurnLists : Len(messages) <= 2 }

InitSummary ==
    /\ ix = FAISS_init
    /\ ixRemoved = {}
    /\ ixOp = [op |-> "init", q |-> NoVec, k |-> 0, ret |-> <<>>, before |-> 0]
    /\ pIn = [op |-> "none", messages |-> <<>>, kind |-> "", persisted |-> 0]
    /\ pOut = [raised |-> "", asked |-> {}, appended |-> 0]
    /\ mem = EmptyMap
    /\ durable = EmptyMap
    /\ nextId = 1
    /\ registry = EmptyMap
    /\ disk = EmptyMap
    /\ call = Idle
    /\ now = 0
    /\ hist = {}
    /\ transcript = <<>>

\* add(messages, 1): the extraction, then the return (there is nothing
\* for update_phase or create_bubbles), or the exception of the extraction
\* leaving add().  persisted counts the earlier calls that appended their
\* pair.
SummaryCall(messages, raw) ==
    LET e == extraction_phase(transcript, messages, 1, raw)
    IN  /\ call.op = "idle"
        /\ Len(e.transcript) <= 2 * MaxSummaryPairs
        /\ transcript' = e.transcript
        /\ IF e.raised # ""
           THEN /\ mem' = durable
                /\ registry' = EmptyMap
                /\ call' = Idle
                /\ UNCHANGED <<durable, nextId, disk, now, hist>>
           ELSE AddBegin(1, e.result.semantic # <<>>, e.result.bubbles # <<>>)
        /\ pIn' = [op |-> "add", messages |-> messages, kind |-> raw.kind,
                   persisted |-> pIn.persisted + pOut.appended \div 2]
        /\ pOut' = [raised |-> e.raised, asked |-> e.asked,
                    appended |-> Len(e.transcript) - Len(transcript)]
        /\ UNCHANGED ixVars

NextSummary ==
    \E messages \in SummaryTurns, raw \in QuietResponses : SummaryCall(messages, raw)

SpecSummary == InitSummary /\ [][NextSummary]_vars

\* C35 (periodic summary trigger): an add() call asks the summary model
\* exactly when it has appended its turn pair and the conversation then
\* holds a positive multiple of 20 messages; every successful call appends
\* 2 messages, so from an empty table that is the 10th, 20th, ... call
\* that appended its pair and no other call.
C35_SummaryTrigger ==
    pIn.op = "add" =>
        /\ pOut.appended \in {0, 2}
        /\ (pOut.raised = "" /\ Len(pIn.messages) >= 2) <=> pOut.appended = 2
        /\ "summary" \in pOut.asked <=>
              /\ pOut.appended = 2
              /\ CountMessages(transcript, 1) > 0
              /\ CountMessages(transcript, 1) % 20 = 0
        /\ "summary" \in pOut.asked <=>
              /\ pOut.appended = 2
              /\ (pIn.persisted + 1) % 10 = 0

\* The 20th call that appended its pair has asked for the summary.
C35_Witness ==
    /\ pIn.op = "add" /\ pIn.persisted = 19
    /\ "summary" \in pOut.asked
    /\ Len(transcript) = 40

---------------------------------------------------------------------------
(* Bubble creation over every importance the Fact Oracle may give          *)
(* (specification SpecImportance)                                          *)

\* The importance of a descriptor: missing, null, a number in or out of
\* [0, 1], a numeric string in or out of range, another string, a list.
OracleImportances ==
    { [t |-> "absent", v |-> 0], [t |-> "null", v |-> 0],
      [t |-> "float", v |-> 5], [t |-> "float", v |-> 15], [t |-> "float", v |-> -5],
      [t |-> "str_num", v |-> 5], [t |-> "str_num", v |-> 15],
      [t |-> "str_bad", v |-> 0], [t |-> "list", v |-> 0] }

\* An iteration of create_bubbles' loop whose db.flush() raises: a list
\* cannot be bound to the Float column.  The exception leaves add() as in
\* UpdateRaises.
BubbleRaises(text, imp) ==
    /\ call.op = "create_bubbles" /\ call.done < MaxBubbles
    /\ text # "" /\ imp.t = "list"
    /\ mem' = durable
    /\ registry' = EmptyMap
    /\ call' = Idle
    /\ UNCHANGED <<durable, nextId, disk, now, hist>>

NextImportance ==
    \/ AddBegin(1, FALSE, TRUE) /\ UNCHANGED <<ixVars, pVars, tVars>>
    \/ \E text \in Texts \cup {""}, imp \in OracleImportances :
          imp.t # "list" /\ BubbleStep(text, imp) /\ UNCHANGED <<ixVars, pVars, tVars>>
    \/ \E text \in Texts, imp \in OracleImportances :
          BubbleRaises(text, imp) /\ UNCHANGED <<ixVars, pVars, tVars>>
    \/ BubblesEnd /\ UNCHANGED <<ixVars, pVars, tVars>>

SpecImportance == Init /\ [][NextImportance]_vars

\* C38 (importance stays in [0, 1]): the importance of every stored memory
\* is between 0 and 1 (0 and 10 tenths).
C38_ImportanceInRange ==
    \A id \in DOMAIN mem : mem[id].importance >= 0 /\ mem[id].importance <= 10

---------------------------------------------------------------------------
(* One create_bubbles batch on a table of bubbles, its discoveries on     *)
(* record (specification SpecDiscover): pIn keeps the id the batch began   *)
(* at, pOut the bubble created last and what the index search of its       *)
(* discovery returned.                                                     *)

MaxDiscoverRows == 7   \* bubbles in the table (bound)
MaxSecondId     == 4   \* the largest id a batch's second bubble may get (bound)

\* "salt" is unlike "tea" (similarity 0) and like "coffee" (0.8).
DiscoverTexts == Texts \cup {"salt"}

DiscoverDescs ==
    UNION { [1..n -> [text : DiscoverTexts,
                      imp : {[t |-> "float", v |-> DefaultImportance]}, at : {0}]] :
              n \in 1..(MaxDiscoverRows - 1) }

InitDiscover == \E descs \in DiscoverDescs : Created(descs)

NoDiscovery == [new |-> 0, results |-> <<>>]

\* add() with bubble descriptors only enters create_bubbles.
BatchBegin ==
    /\ pIn.op = "none"
    /\ AddBegin(1, FALSE, TRUE)
    /\ pIn' = [op |-> "batch", first |-> nextId]
    /\ pOut' = NoDiscovery
    /\ UNCHANGED <<ixVars, tVars>>

\* One iteration of create_bubbles' loop, as BubbleStep, on the larger
\* table.
DiscoverStep(text) ==
    /\ call.op = "create_bubbles" /\ call.done < MaxBubbles
    /\ IF text = ""
       THEN /\ pOut' = NoDiscovery
            /\ UNCHANGED <<mem, nextId, registry>>
       ELSE LET c         == call.conv
                embedding == embed_text(text)
                bubble    == Row(c, text, embedding, TRUE, now, DefaultImportance)
                store     == FAISS_add(registry[c], nextId, embedding)
            IN  /\ nextId <= MaxDiscoverRows
                /\ call.done = 0 \/ nextId <= MaxSecondId
                /\ nextId' = nextId + 1
                /\ registry' = With(registry, c, store)
                /\ \E results \in FAISS_search(store, embedding, MAX_CONNECTIONS * 2) :
                      /\ mem' = find_connections(With(mem, nextId, bubble), results, nextId)
                      /\ pOut' = [new |-> nextId, results |-> results]
    /\ call' = [call EXCEPT !.done = @ + 1]
    /\ UNCHANGED <<durable, disk, now, hist, pIn>>
    /\ UNCHANGED <<ixVars, tVars>>

BatchEnd ==
    /\ BubblesEnd
    /\ UNCHANGED <<ixVars, pVars, tVars>>

NextDiscover ==
    \/ BatchBegin
    \/ \E text \in DiscoverTexts \cup {""} : DiscoverStep(text)
    \/ BatchEnd

SpecDiscover == InitDiscover /\ [][NextDiscover]_vars

\* The index result r passes find_connections' filter for the new bubble.
Qualifies(r, new_id) ==
    r.memory_id # new_id /\ 1000 * r.score >= CONNECTION_THRESHOLD * Unit * Unit

\* The results of the recorded discovery that pass the filter.
Qualifying == { i \in 1..Len(pOut.results) : Qualifies(pOut.results[i], pOut.new) }

C33_TopConnections ==
    /\ \A a \in DOMAIN mem : a \notin ConnIds(mem[a])
    /\ (pIn.op = "batch" /\ pOut.new # 0) =>
          LET conns == mem[pOut.new].connections
          IN  /\ Len(conns) <= MAX_CONNECTIONS
              /\ \A n \in 1..Len(conns) :
                    /\ conns[n].id # pOut.new
                    /\ conns[n].score >= CONNECTION_THRESHOLD
                    /\ \E k \in Qualifying :
                          /\ pOut.results[k].memory_id = conns[n].id
                          /\ round3(pOut.results[k].score) = conns[n].score
              /\ \A k \in Qualifying :
                    pOut.results[k].memory_id \notin ConnIds(mem[pOut.new]) =>
                        /\ Len(conns) = MAX_CONNECTIONS
                        /\ \A n \in 1..Len(conns) :
                              conns[n].score >= round3(pOut.results[k].score)

\* A discovery has kept MAX_CONNECTIONS neighbours and left a qualifying
\* result out.
C33_Witness ==
    /\ pIn.op = "batch" /\ pOut.new # 0
    /\ Len(mem[pOut.new].connections) = MAX_CONNECTIONS
    /\ \E k \in Qualifying : pOut.results[k].memory_id \notin ConnIds(mem[pOut.new])

---------------------------------------------------------------------------
(* Two callers on one FAISSVectorStore, statement by statement             *)
(* (specification SpecRace).  ix is the shared instance; pIn[t] is caller  *)
(* t's position in add() or remove() with its arguments and its local      *)
(* faiss_idx; pOut.owner[i+1] is the id whose vector was put in slot i,    *)
(* pOut.overlapped tells whether a call ever began while another was in    *)
(* progress.                                                               *)

MaxThreads   == 2   \* concurrent callers (bound)
MaxRaceSlots == 3   \* physical slots of the shared index (bound)

Threads == 1..MaxThreads

RaceVecs == { <<2, 0>> }

Resting == [pc |-> "idle", memory_id |-> 0, embedding |-> NoVec, faiss_idx |-> 0]

InitRace ==
    /\ ix = FAISS_init
    /\ ixRemoved = {}
    /\ ixOp = [op |-> "init", q |-> NoVec, k |-> 0, ret |-> <<>>, before |-> 0]
    /\ pIn = [t \in Threads |-> Resting]
    /\ pOut = [overlapped |-> FALSE, owner |-> <<>>]
    /\ mem = EmptyMap
    /\ durable = EmptyMap
    /\ nextId = 1
    /\ registry = EmptyMap
    /\ disk = EmptyMap
    /\ call = [op |-> "idle"]
    /\ now = 0
    /\ hist = {}
    /\ transcript = <<>>

\* An id_map assignment that is one slot off.
set_id_map_off(s, memory_id, faiss_idx) ==
    [s EXCEPT !.id_map = With(@, memory_id, faiss_idx + 1)]

\* self.id_map[memory_id] = faiss_idx
set_id_map(s, memory_id, faiss_idx) ==
    [s EXCEPT !.id_map = With(@, memory_id, faiss_idx)]

\* self.reverse_map[faiss_idx] = memory_id
set_reverse_map(s, faiss_idx, memory_id) ==
    [s EXCEPT !.reverse_map = With(@, faiss_idx, memory_id)]

Busy(t) == pIn[t].pc # "idle"

Goto(t, pc) == pIn' = [pIn EXCEPT ![t].pc = pc]

\* A caller enters add(memory_id, embedding) or remove(memory_id).
Enter(t, op, memory_id, embedding) ==
    /\ ~Busy(t)
    /\ pIn' = [pIn EXCEPT ![t] = [pc |-> op, memory_id |-> memory_id,
                                  embedding |-> embedding, faiss_idx |-> 0]]
    /\ pOut' = [pOut EXCEPT !.overlapped = @ \/ \E u \in Threads \ {t} : Busy(u)]
    /\ UNCHANGED ix

\* add: if memory_id in self.id_map: return
AddCheck(t) ==
    /\ pIn[t].pc = "add"
    /\ IF pIn[t].memory_id \in DOMAIN ix.id_map THEN Goto(t, "idle") ELSE Goto(t, "add_ntotal")
    /\ UNCHANGED <<ix, pOut>>

\* add: faiss_idx = self.index.ntotal
AddNtotal(t) ==
    /\ pIn[t].pc = "add_ntotal"
    /\ pIn' = [pIn EXCEPT ![t].pc = "add_index", ![t].faiss_idx = ntotal(ix)]
    /\ UNCHANGED <<ix, pOut>>

\* add: self.index.add(vector), the vector normalised
AddIndex(t) ==
    /\ pIn[t].pc = "add_index"
    /\ ntotal(ix) < MaxRaceSlots
    /\ ix' = [ix EXCEPT !.vecs = Append(@, normalize_L2(pIn[t].embedding))]
    /\ pOut' = [pOut EXCEPT !.owner = Append(@, pIn[t].memory_id)]
    /\ Goto(t, "add_id_map")

\* add: self.id_map[memory_id] = faiss_idx
AddIdMap(t) ==
    /\ pIn[t].pc = "add_id_map"
    /\ ix' = set_id_map(ix, pIn[t].memory_id, pIn[t].faiss_idx)
    /\ Goto(t, "add_reverse_map")
    /\ UNCHANGED pOut

\* add: self.reverse_map[faiss_idx] = memory_id
AddReverseMap(t) ==
    /\ pIn[t].pc = "add_reverse_map"
    /\ ix' = set_reverse_map(ix, pIn[t].faiss_idx, pIn[t].memory_id)
    /\ Goto(t, "idle")
    /\ UNCHANGED pOut

\* remove: if memory_id in self.id_map:
RemoveCheck(t) ==
    /\ pIn[t].pc = "remove"
    /\ IF pIn[t].memory_id \in DOMAIN ix.id_map THEN Goto(t, "remove_read") ELSE Goto(t, "idle")
    /\ UNCHANGED <<ix, pOut>>

\* remove: faiss_idx = self.id_map[memory_id]; a KeyError ends the call.
RemoveRead(t) ==
    /\ pIn[t].pc = "remove_read"
    /\ IF pIn[t].memory_id \in DOMAIN ix.id_map
       THEN pIn' = [pIn EXCEPT ![t].pc = "remove_reverse_map",
                               ![t].faiss_idx = ix.id_map[pIn[t].memory_id]]
       ELSE Goto(t, "idle")
    /\ UNCHANGED <<ix, pOut>>

\* remove: if faiss_idx in self.reverse_map: del self.reverse_map[faiss_idx]
RemoveReverseMap(t) ==
    /\ pIn[t].pc = "remove_reverse_map"
    /\ ix' = [ix EXCEPT !.reverse_map = Without(@, pIn[t].faiss_idx)]
    /\ Goto(t, "remove_id_map")
    /\ UNCHANGED pOut

\* remove: del self.id_map[memory_id]; a KeyError ends the call.
RemoveIdMap(t) ==
    /\ pIn[t].pc = "remove_id_map"
    /\ ix' = [ix EXCEPT !.id_map = Without(@, pIn[t].memory_id)]
    /\ Goto(t, "idle")
    /\ UNCHANGED pOut

NextRace ==
    \/ \E t \in Threads, id \in IxIds, v \in RaceVecs :
          Enter(t, "add", id, v) /\ UNCHANGED <<ixRemoved, ixOp, sysVars, tVars>>
    \/ \E t \in Threads, id \in IxIds :
          Enter(t, "remove", id, NoVec) /\ UNCHANGED <<ixRemoved, ixOp, sysVars, tVars>>
    \/ \E t \in Threads : AddCheck(t) /\ UNCHANGED <<ixRemoved, ixOp, sysVars, tVars>>
    \/ \E t \in Threads : AddNtotal(t) /\ UNCHANGED <<ixRemoved, ixOp, sysVars, tVars>>
    \/ \E t \in Threads : AddIndex(t) /\ UNCHANGED <<ixRemoved, ixOp, sysVars, tVars>>
    \/ \E t \in Threads : AddIdMap(t) /\ UNCHANGED <<ixRemoved, ixOp, sysVars, tVars>>
    \/ \E t \in Threads : AddReverseMap(t) /\ UNCHANGED <<ixRemoved, ixOp, sysVars, tVars>>
    \/ \E t \in Threads : RemoveCheck(t) /\ UNCHANGED <<ixRemoved, ixOp, sysVars, tVars>>
    \/ \E t \in Threads : RemoveRead(t) /\ UNCHANGED <<ixRemoved, ixOp, sysVars, tVars>>
    \/ \E t \in Threads : RemoveReverseMap(t) /\ UNCHANGED <<ixRemoved, ixOp, sysVars, tVars>>
    \/ \E t \in Threads : RemoveIdMap(t) /\ UNCHANGED <<ixRemoved, ixOp, sysVars, tVars>>

SpecRace == InitRace /\ [][NextRace]_vars

\* No two ids share a slot, the two maps are inverse to each other, and
\* the slot of an id holds the vector that was added for it.
MapsConsistent ==
    /\ \A a, b \in DOMAIN ix.id_map : ix.id_map[a] = ix.id_map[b] => a = b
    /\ DOMAIN ix.reverse_map = { ix.id_map[id] : id \in DOMAIN ix.id_map }
    /\ \A id \in DOMAIN ix.id_map :
          /\ ix.reverse_map[ix.id_map[id]] = id
          /\ ix.id_map[id] < ntotal(ix)
          /\ pOut.owner[ix.id_map[id] + 1] = id

Quiet == \A t \in Threads : ~Busy(t)

\* C36 (no mutual exclusion in the index): as long as no call has begun
\* while another was in progress, the maps are consistent whenever no call
\* is in progress.  (That interleaved calls can leave them inconsistent is
\* the reachable state C36_Witness.)
C36_SerializedConsistent ==
    (Quiet /\ ~pOut.overlapped) => MapsConsistent

\* Two calls have interleaved and returned, and two ids are assigned the
\* same slot.
C36_Witness ==
    /\ Quiet /\ pOut.overlapped
    /\ \E a, b \in DOMAIN ix.id_map : a # b /\ ix.id_map[a] = ix.id_map[b]

====
